---------------------------- MODULE Spec2Model ----------------------------
(***************************************************************************)
(* FaceLike (src/session_05/index.js): registration, login, session        *)
(* cookies and a profile page over a JSON file of users, in two variants:  *)
(* a raw http.createServer listener and an Express application.            *)
(*                                                                         *)
(* Text is modelled as sequences of UTF-16 code units (integers), as a     *)
(* JavaScript string holds them: the token codec, the cookie headers and   *)
(* the form bodies are computed character by character, as the code        *)
(* computes them.                                                          *)
(***************************************************************************)
EXTENDS Integers, Sequences, FiniteSets, Bags, TLC

(***************************************************************************)
(* Text                                                                    *)
(***************************************************************************)

\* Printable ASCII, code points 32..126, in order (the grave accent, which a
\* string literal cannot hold, is left as a placeholder).
Ascii ==
  << " ", "!", "\"", "#", "$", "%", "&", "'", "(", ")", "*", "+", ",", "-", ".", "/",
     "0", "1", "2", "3", "4", "5", "6", "7", "8", "9", ":", ";", "<", "=", ">", "?",
     "@", "A", "B", "C", "D", "E", "F", "G", "H", "I", "J", "K", "L", "M", "N", "O",
     "P", "Q", "R", "S", "T", "U", "V", "W", "X", "Y", "Z", "[", "\\", "]", "^", "_",
     "(grave)", "a", "b", "c", "d", "e", "f", "g", "h", "i", "j", "k", "l", "m", "n", "o",
     "p", "q", "r", "s", "t", "u", "v", "w", "x", "y", "z", "{", "|", "}", "~" >>

\* The code point of a one-character string.
Ord(c) == 31 + (CHOOSE i \in 1..Len(Ascii) : Ascii[i] = c)

\* A text literal: the code points of a sequence of one-character strings.
Str(cs) == [i \in 1..Len(cs) |-> Ord(cs[i])]

\* The least element of a non-empty set of integers.
Min(S) == CHOOSE m \in S : \A k \in S : m <= k

\* The index of the first occurrence of character c in s, 0 when absent
\* (String.prototype.indexOf, plus one).
IndexOf(s, c) ==
  LET hits == {i \in 1..Len(s) : s[i] = c} IN
  IF hits = {} THEN 0 ELSE Min(hits)

\* The segments of s between the cuts, which are the indexes of its
\* separators in order between 0 and Len(s) + 1.
SplitCuts(s, cuts) == [k \in 1..(Len(cuts) - 1) |-> SubSeq(s, cuts[k] + 1, cuts[k + 1] - 1)]

\* String.prototype.split(sep) for a one-character separator: always at
\* least one segment ("".split(".") is [""]).
Split(s, sep) ==
  SplitCuts(s, <<0>> \o SelectSeq([i \in 1..Len(s) |-> i], LAMBDA i : s[i] = sep)
               \o <<Len(s) + 1>>)

(***************************************************************************)
(* Buffer: UTF-8 and base64                                                *)
(***************************************************************************)

\* A string is its UTF-16 code units.  High and low surrogates: a high one
\* followed by a low one is the pair of one code point above U+FFFF, any
\* other surrogate is a lone one.
IsHigh(c) == c >= 55296 /\ c <= 56319
IsLow(c) == c >= 56320 /\ c <= 57343

\* The code unit at index i of s is a surrogate outside a pair.
IsLone(s, i) ==
  \/ IsHigh(s[i]) /\ ~(i < Len(s) /\ IsLow(s[i + 1]))
  \/ IsLow(s[i]) /\ ~(i > 1 /\ IsHigh(s[i - 1]))

\* The UTF-8 bytes of one code point; a lone surrogate is written as
\* U+FFFD (ef bf bd).
Utf8Bytes(c) ==
  IF c < 128 THEN <<c>>
  ELSE IF c < 2048 THEN <<192 + (c \div 64), 128 + (c % 64)>>
  ELSE IF IsHigh(c) \/ IsLow(c) THEN <<239, 191, 189>>
  ELSE IF c < 65536
    THEN <<224 + (c \div 4096), 128 + ((c \div 64) % 64), 128 + (c % 64)>>
  ELSE <<240 + (c \div 262144), 128 + ((c \div 4096) % 64),
         128 + ((c \div 64) % 64), 128 + (c % 64)>>

\* The bytes that the code unit at index i of s contributes: those of the
\* code point of the pair it starts, none when it ends a pair, else its own.
Utf8UnitBytes(s, i) ==
  IF IsHigh(s[i]) /\ i < Len(s) /\ IsLow(s[i + 1])
  THEN Utf8Bytes(65536 + (s[i] - 55296) * 1024 + (s[i + 1] - 56320))
  ELSE IF IsLow(s[i]) /\ i > 1 /\ IsHigh(s[i - 1]) THEN <<>>
  ELSE Utf8Bytes(s[i])

RECURSIVE Utf8EncodeRange(_, _, _)
\* The bytes of s[lo..hi], the range being halved.
Utf8EncodeRange(s, lo, hi) ==
  IF lo > hi THEN <<>>
  ELSE IF lo = hi THEN Utf8UnitBytes(s, lo)
  ELSE Utf8EncodeRange(s, lo, (lo + hi) \div 2)
       \o Utf8EncodeRange(s, ((lo + hi) \div 2) + 1, hi)

\* Buffer.from(string): the UTF-8 bytes of a string.
Utf8Encode(s) == Utf8EncodeRange(s, 1, Len(s))

\* The number of bytes that follow the lead byte x of a UTF-8 sequence, 0
\* for a byte that is no lead (c0, c1 and f5..ff are never one).
Utf8Need(x) ==
  IF x >= 194 /\ x <= 223 THEN 1
  ELSE IF x >= 224 /\ x <= 239 THEN 2
  ELSE IF x >= 240 /\ x <= 244 THEN 3
  ELSE 0

\* Byte x may stand at place k (1..3) after the lead byte lead.
IsCont(lead, k, x) ==
  IF k > 1 THEN x >= 128 /\ x <= 191
  ELSE x >= (IF lead = 224 THEN 160 ELSE IF lead = 240 THEN 144 ELSE 128)
       /\ x <= (IF lead = 237 THEN 159 ELSE IF lead = 244 THEN 143 ELSE 191)

\* The number of bytes after the lead byte at index j of b that continue
\* its sequence: the longest run of bytes that may stand there.
Utf8Taken(b, j) ==
  LET ok(n) == \A k \in 1..n : j + k <= Len(b) /\ IsCont(b[j], k, b[j + k])
  IN CHOOSE n \in 0..Utf8Need(b[j]) :
       ok(n) /\ (n = Utf8Need(b[j]) \/ ~ok(n + 1))

\* The code units of a code point: itself, or its surrogate pair.
Utf16Units(cp) ==
  IF cp < 65536 THEN <<cp>>
  ELSE <<55296 + ((cp - 65536) \div 1024), 56320 + ((cp - 65536) % 1024)>>

\* The code point of the complete sequence at index j of b.
Utf8CodePoint(b, j) ==
  CASE Utf8Need(b[j]) = 1 -> (b[j] - 192) * 64 + (b[j + 1] - 128)
    [] Utf8Need(b[j]) = 2 ->
         (b[j] - 224) * 4096 + (b[j + 1] - 128) * 64 + (b[j + 2] - 128)
    [] Utf8Need(b[j]) = 3 ->
         (b[j] - 240) * 262144 + (b[j + 1] - 128) * 4096
         + (b[j + 2] - 128) * 64 + (b[j + 3] - 128)

\* What the byte at index i contributes to the decoded string: nothing
\* when it continues the sequence of a lead byte before it; the code point
\* of the sequence it starts when that is complete, one U+FFFD when it is
\* cut short; U+FFFD for any other byte of 128 and above.
Utf8Piece(b, i) ==
  IF b[i] < 128 THEN <<b[i]>>
  ELSE IF \E j \in 1..(i - 1) : i - j <= 3 /\ Utf8Need(b[j]) > 0 /\ i - j <= Utf8Taken(b, j)
    THEN <<>>
  ELSE IF Utf8Need(b[i]) > 0 /\ Utf8Taken(b, i) = Utf8Need(b[i])
    THEN Utf16Units(Utf8CodePoint(b, i))
  ELSE <<65533>>

RECURSIVE Utf8DecodeRange(_, _, _)
\* The code units of b[lo..hi] within b, the range being halved.
Utf8DecodeRange(b, lo, hi) ==
  IF lo > hi THEN <<>>
  ELSE IF lo = hi THEN Utf8Piece(b, lo)
  ELSE Utf8DecodeRange(b, lo, (lo + hi) \div 2)
       \o Utf8DecodeRange(b, ((lo + hi) \div 2) + 1, hi)

\* The bytes read as latin1, one character each: buffer.toString("latin1").
Latin1Decode(b) == b

\* buffer.toString(): UTF-8 decoding; every maximal part of an ill-formed
\* sequence becomes one U+FFFD.
Utf8Decode(b) == Utf8DecodeRange(b, 1, Len(b))

\* The base64 alphabet.
B64 ==
  Str(<< "A", "B", "C", "D", "E", "F", "G", "H", "I", "J", "K", "L", "M", "N", "O", "P",
         "Q", "R", "S", "T", "U", "V", "W", "X", "Y", "Z", "a", "b", "c", "d", "e", "f",
         "g", "h", "i", "j", "k", "l", "m", "n", "o", "p", "q", "r", "s", "t", "u", "v",
         "w", "x", "y", "z", "0", "1", "2", "3", "4", "5", "6", "7", "8", "9", "+", "/" >>)

\* The six-bit value at place k (0..3) of the group of bytes starting at
\* index i of b, a byte beyond the end counting as 0.
GroupSextet(b, i, k) ==
  LET b1 == b[i]
      b2 == IF i + 1 <= Len(b) THEN b[i + 1] ELSE 0
      b3 == IF i + 2 <= Len(b) THEN b[i + 2] ELSE 0
  IN CASE k = 0 -> b1 \div 4
       [] k = 1 -> (b1 % 4) * 16 + (b2 \div 16)
       [] k = 2 -> (b2 % 16) * 4 + (b3 \div 64)
       [] k = 3 -> b3 % 64

\* buffer.toString("base64"): three bytes to four characters, the last
\* group padded with "=".
Base64Encode(b) ==
  [j \in 1..(4 * ((Len(b) + 2) \div 3)) |->
     LET i == 3 * ((j - 1) \div 4) + 1
         k == (j - 1) % 4
     IN IF i + k - 1 > Len(b) THEN 61
        ELSE B64[GroupSextet(b, i, k) + 1]]

\* The six-bit value of a base64 character (the URL-safe "-" and "_" are
\* accepted too), 64 for any other character.
Unbase64(c) ==
  IF c >= 65 /\ c <= 90 THEN c - 65
  ELSE IF c >= 97 /\ c <= 122 THEN c - 71
  ELSE IF c >= 48 /\ c <= 57 THEN c + 4
  ELSE IF c = 43 \/ c = 45 THEN 62
  ELSE IF c = 47 \/ c = 95 THEN 63
  ELSE 64

RECURSIVE SextetsRange(_, _, _)
\* The six-bit values of the base64 characters of s[lo..hi].
SextetsRange(s, lo, hi) ==
  IF lo > hi THEN <<>>
  ELSE IF lo = hi THEN (IF Unbase64(s[lo]) < 64 THEN <<Unbase64(s[lo])>> ELSE <<>>)
  ELSE SextetsRange(s, lo, (lo + hi) \div 2)
       \o SextetsRange(s, ((lo + hi) \div 2) + 1, hi)

\* The six-bit values Buffer.from(s, "base64") decodes: characters outside
\* the alphabet are skipped and the first "=" ends the decoding.
Sextets(s) ==
  LET eq == IndexOf(s, 61) IN
  SextetsRange(s, 1, IF eq = 0 THEN Len(s) ELSE eq - 1)

\* The characters as the decoder reads them: the low byte of each code.
LowBytes(s) == [i \in 1..Len(s) |-> s[i] % 256]

\* Buffer.from(s, "base64"): four sextets to three bytes; a last group of
\* two or three sextets gives one or two bytes, a single left-over sextet
\* none.  It never throws.
Base64Decode(s) ==
  LET x == Sextets(LowBytes(s))
      r == Len(x) % 4
      n == 3 * (Len(x) \div 4) + (IF r = 2 THEN 1 ELSE IF r = 3 THEN 2 ELSE 0)
  IN [j \in 1..n |->
        LET i == 4 * ((j - 1) \div 3) + 1
            k == (j - 1) % 3
        IN CASE k = 0 -> x[i] * 4 + (x[i + 1] \div 16)
             [] k = 1 -> (x[i + 1] % 16) * 16 + (x[i + 2] \div 4)
             [] k = 2 -> (x[i + 2] % 4) * 64 + x[i + 3]]

(***************************************************************************)
(* Numbers                                                                 *)
(*                                                                         *)
(* A Number is an IEEE 754 double.  A number literal is rounded to the     *)
(* nearest double (ties to even; infinite from 2^1024 - 2^970 on) and a    *)
(* Number is held as the text Number.prototype.toString gives it: the      *)
(* fewest digits that read back as the same double.  The arithmetic is     *)
(* exact, on natural numbers held as sequences of decimal digits (0..9),   *)
(* the most significant first.                                             *)
(***************************************************************************)

IsDigit(c) == c >= 48 /\ c <= 57

\* The greatest element of a non-empty set of integers.
Max(S) == CHOOSE m \in S : \A k \in S : m >= k

RECURSIVE Digits(_)
\* The digits of a natural number.
Digits(n) == IF n < 10 THEN <<n>> ELSE Append(Digits(n \div 10), n % 10)

RECURSIVE DigitsValue(_)
\* The natural number of a few digits.
DigitsValue(d) ==
  IF d = <<>> THEN 0 ELSE 10 * DigitsValue(SubSeq(d, 1, Len(d) - 1)) + d[Len(d)]

Zeros(n) == [i \in 1..n |-> 0]

\* Without its leading zeros (one digit at least is left).
StripZeros(a) ==
  IF a = <<>> THEN <<0>>
  ELSE SubSeq(a, Min({i \in 1..Len(a) : a[i] # 0} \cup {Len(a)}), Len(a))

\* a < b, for two numbers without leading zeros or of the same length.
Less(a, b) ==
  \/ Len(a) < Len(b)
  \/ /\ Len(a) = Len(b)
     /\ \E i \in 1..Len(a) : a[i] < b[i] /\ \A j \in 1..(i - 1) : a[j] = b[j]

\* a + 1
Inc(a) ==
  LET k == Max({i \in 1..Len(a) : a[i] # 9} \cup {0}) IN
  IF k = 0 THEN <<1>> \o Zeros(Len(a))
  ELSE [i \in 1..Len(a) |-> IF i < k THEN a[i] ELSE IF i = k THEN a[i] + 1 ELSE 0]

\* a - 1, for a positive a.
Dec(a) ==
  LET k == Max({i \in 1..Len(a) : a[i] # 0}) IN
  StripZeros([i \in 1..Len(a) |-> IF i < k THEN a[i] ELSE IF i = k THEN a[i] - 1 ELSE 9])

RECURSIVE MulRange(_, _, _, _, _)
\* The digits a[lo..hi] times M plus the carry out of the places to their
\* right, before the digits of those places: right is their carry out and
\* their digits, worked out first.
MulJoin(a, lo, hi, M, right) ==
  IF Len(right) < 2 THEN right
  ELSE MulRange(a, lo, hi, M, Head(right)) \o Tail(right)

\* a[lo..hi] * M + carry: the carry out, then the digits of hi - lo + 1
\* places, the range being halved.
MulRange(a, lo, hi, M, carry) ==
  IF lo = hi THEN <<(a[lo] * M + carry) \div 10, (a[lo] * M + carry) % 10>>
  ELSE MulJoin(a, lo, (lo + hi) \div 2, M,
               MulRange(a, ((lo + hi) \div 2) + 1, hi, M, carry))

\* The number written by a carry and the digits after it.
MulEnd(r) == StripZeros(Digits(Head(r)) \o Tail(r))

\* a * M, for M below 2^27.
MulSmall(a, M) == MulEnd(MulRange(a, 1, Len(a), M, 0))

RECURSIVE Times(_, _, _)
\* a * base^n, for base 2 or 5.
Times(a, base, n) ==
  IF a = <<0>> \/ n = 0 THEN a
  ELSE IF n <= (IF base = 2 THEN 27 ELSE 11) THEN MulSmall(a, base ^ n)
  ELSE Times(Times(a, base, n \div 2), base, n - (n \div 2))

\* num * 10^sh as <<integer part, digits of the fraction>>.
SplitAt(num, sh) ==
  IF sh >= 0 THEN <<num \o Zeros(sh), <<>>>>
  ELSE IF -sh >= Len(num) THEN << <<0>>, Zeros((-sh) - Len(num)) \o num >>
  ELSE <<SubSeq(num, 1, Len(num) + sh), SubSeq(num, Len(num) + sh + 1, Len(num))>>

\* D * 10^k / 2^e as <<integer part, digits of the fraction>>.
Scaled(D, k, e) ==
  IF e < 0 THEN SplitAt(Times(D, 2, -e), k) ELSE SplitAt(Times(D, 5, e), k - e)

\* The integer part of qf rounded to nearest, ties to even.
Rounded(qf) ==
  IF /\ qf[2] # <<>>
     /\ \/ qf[2][1] > 5
        \/ /\ qf[2][1] = 5
           /\ \/ \E j \in 2..Len(qf[2]) : qf[2][j] # 0
              \/ qf[1][Len(qf[1])] % 2 = 1
  THEN Inc(qf[1]) ELSE qf[1]

\* How many of 2^53 .. 2^57 the number q reaches.
ShiftOf(q) == Cardinality({i \in 53..57 : ~Less(q, Times(<<1>>, 2, i))})

\* The binary exponent e of the double nearest to D * 10^k: that of the
\* mantissa D * 10^k / 2^e in 2^52 .. 2^53 - 1, and -1074 at least.
BinExp(D, k) ==
  LET low == Max({(((Len(D) + k - 1) * 33219) \div 10000) - 53, -1074})
  IN low + ShiftOf(Scaled(D, k, low)[1])

\* The double of mantissa m0 (up to 2^53) and exponent e.
Normal(m0, e) ==
  IF m0 = Times(<<1>>, 2, 53) THEN [m |-> Times(<<1>>, 2, 52), e |-> e + 1]
  ELSE [m |-> m0, e |-> e]

\* The double m * 2^e nearest to D * 10^k.
DoubleAt(D, k, e) == Normal(Rounded(Scaled(D, k, e)), e)

\* a left-padded with zeros to n digits.
Pad(a, n) == Zeros(n - Len(a)) \o a

\* The digits, in the first p places of the n-digit V, of the number with
\* zeros after them that is nearest to V and within L .. H (the ends
\* included when closed); <<>> when there is none.
Cand(L, V, H, closed, p) ==
  LET n == Len(H)
      t == SubSeq(V, 1, p)
      u == Inc(t)
      exact == \A i \in (p + 1)..n : V[i] = 0
      tIn == exact \/ (IF closed THEN ~Less(t \o Zeros(n - p), L)
                                 ELSE Less(L, t \o Zeros(n - p)))
      uIn == /\ ~exact
             /\ Len(u) = p
             /\ (IF closed THEN ~Less(H, u \o Zeros(n - p))
                           ELSE Less(u \o Zeros(n - p), H))
      upNearer == /\ ~exact
                  /\ \/ V[p + 1] > 5
                     \/ /\ V[p + 1] = 5
                        /\ \/ \E j \in (p + 2)..n : V[j] # 0
                           \/ t[p] % 2 = 1
  IN IF tIn /\ (~uIn \/ ~upNearer) THEN t
     ELSE IF uIn THEN u
     ELSE <<>>

\* The shortest digits between L and H, at the first place where there are
\* any.
Shortest(L, V, H, closed) ==
  Cand(L, V, H, closed,
       Min({p \in 1..Min({Len(H), 20}) : Cand(L, V, H, closed, p) # <<>>}))

\* Number::toString of the digits d (no zero at either end) with the
\* decimal point after pt of them.
FormatNumber(d, pt) ==
  LET k == Len(d)
      txt == [i \in 1..k |-> d[i] + 48]
  IN IF k <= pt /\ pt <= 21 THEN txt \o [i \in 1..(pt - k) |-> 48]
     ELSE IF 0 < pt /\ pt <= 21
       THEN SubSeq(txt, 1, pt) \o <<46>> \o SubSeq(txt, pt + 1, k)
     ELSE IF -6 < pt /\ pt <= 0
       THEN <<48, 46>> \o [i \in 1..(-pt) |-> 48] \o txt
     ELSE <<txt[1]>> \o (IF k > 1 THEN <<46>> \o SubSeq(txt, 2, k) ELSE <<>>)
          \o <<101, IF pt - 1 < 0 THEN 45 ELSE 43>>
          \o [i \in 1..Len(Digits(IF pt < 1 THEN 1 - pt ELSE pt - 1)) |->
                Digits(IF pt < 1 THEN 1 - pt ELSE pt - 1)[i] + 48]

\* The digits c, of a number that ends n - Len(c) places before the end of
\* an n-digit number with F places of fraction, as text.
FormatDigits(c, n, F) ==
  LET lead == Len(c) - Len(StripZeros(c))
      last == Max({i \in 1..Len(c) : c[i] # 0})
  IN FormatNumber(SubSeq(c, lead + 1, last), n - F - lead)

\* The text of the shortest number between L and H, the n-digit halfway
\* points to the neighbours of the double V, with F places of fraction.
ShortestOf(L, V, H, F, closed) ==
  FormatDigits(Shortest(Pad(L, Len(H)), Pad(V, Len(H)), H, closed), Len(H), F)

\* The same, L, V and H being first scaled by base^n.
ShortestScaled(L, V, H, base, n, F, closed) ==
  ShortestOf(Times(L, base, n), Times(V, base, n), Times(H, base, n), F, closed)

\* The same, L, V and H being first scaled by 2^g.
ShortestText(L, V, H, g, closed) ==
  ShortestScaled(L, V, H, IF g >= 0 THEN 2 ELSE 5, IF g >= 0 THEN g ELSE -g,
                 IF g >= 0 THEN 0 ELSE -g, closed)

\* The shortest text between the halfway points around V, the upper one
\* ups above it and the lower one 1 below.
DoubleBetween(V, ups, g, closed) ==
  ShortestText(Dec(V), V, IF ups = 2 THEN Inc(Inc(V)) ELSE Inc(V), g, closed)

\* Number::toString of the positive double m * 2^e, which is or is not the
\* least of its binade.
DoubleNear(m, e, least) ==
  DoubleBetween(MulSmall(m, IF least THEN 4 ELSE 2), IF least THEN 2 ELSE 1,
                IF least THEN e - 2 ELSE e - 1, least \/ m[Len(m)] % 2 = 0)

\* Number::toString of the positive double m * 2^e: the gap below a power
\* of two is half the gap above it.
DoubleText(m, e) == DoubleNear(m, e, m = Times(<<1>>, 2, 52) /\ e > -1074)

Infinity == <<73, 110, 102, 105, 110, 105, 116, 121>>

\* The text of the double d, zero and infinity included.
DoubleOrLimit(d) ==
  IF d.m = <<0>> THEN <<48>>
  ELSE IF d.e > 971 THEN Infinity
  ELSE DoubleText(d.m, d.e)

\* The text of the double nearest to D * 10^k, for D without leading zeros.
MagnitudeText(D, k) ==
  IF D = <<0>> \/ Len(D) + k - 1 < -324 THEN <<48>>
  ELSE IF Len(D) + k - 1 > 308 THEN Infinity
  ELSE DoubleOrLimit(DoubleAt(D, k, BinExp(D, k)))

\* The value of an exponent, 99999 when it has more than five digits.
ExponentValue(d) ==
  IF Len(StripZeros(d)) > 5 THEN 99999 ELSE DigitsValue(StripZeros(d))

\* The text of the Number that a literal denotes: its sign, the digits of
\* its integer part, of its fraction and of its exponent with its sign.
NumberText(neg, int, frac, expNeg, exp) ==
  LET txt == MagnitudeText(StripZeros(int \o frac),
               (IF expNeg THEN -ExponentValue(exp) ELSE ExponentValue(exp)) - Len(frac))
  IN IF neg /\ txt # <<48>> THEN <<45>> \o txt ELSE txt

(***************************************************************************)
(* JavaScript values and JSON                                              *)
(*                                                                         *)
(* A value is a record [t, s, m]: t its type, s the text of a string, the  *)
(* text of a Number or the name of a built-in function or object, m the    *)
(* own members of an object or function (<<key, value>> pairs, in the      *)
(* order Object.keys lists them) or the elements of an array (pairs with   *)
(* an empty key).  "throw" stands for an exception raised by the           *)
(* operation.  Objects and arrays are held by value: two of them are       *)
(* never the same object.                                                  *)
(***************************************************************************)

JNull == [t |-> "null", s |-> <<>>, m |-> <<>>]
JUndefined == [t |-> "undefined", s |-> <<>>, m |-> <<>>]
Thrown == [t |-> "throw", s |-> <<>>, m |-> <<>>]
JBool(b) == [t |-> IF b THEN "true" ELSE "false", s |-> <<>>, m |-> <<>>]
JNum(txt) == [t |-> "number", s |-> txt, m |-> <<>>]
JStr(str) == [t |-> "string", s |-> str, m |-> <<>>]
JArr(elems) ==
  [t |-> "array", s |-> <<>>, m |-> [i \in 1..Len(elems) |-> << <<>>, elems[i] >>]]
JObj(pairs) == [t |-> "object", s |-> <<>>, m |-> pairs]

\* The text of a natural number.
NatText(n) == [i \in 1..Len(Digits(n)) |-> Digits(n)[i] + 48]

\* A built-in function: its qualified name tells it from every other one,
\* and its own members are its length and its name.
JFunction(owner, name, arity) ==
  [t |-> "function", s |-> owner \o name,
   m |-> << << Str(<<"l", "e", "n", "g", "t", "h">>), JNum(NatText(arity)) >>,
            << Str(<<"n", "a", "m", "e">>), JStr(name) >> >>]

\* A built-in object, told from the others by its name.
JBuiltin(name) == [t |-> "object", s |-> name, m |-> <<>>]

\* Object.create(null): an object without members and without prototype.
JBare == [t |-> "object", s |-> <<0>>, m |-> <<>>]

\* The key is an array index: the decimal text, without a leading zero, of
\* an integer from 0 to 2^32 - 2.
IsIndex(key) ==
  /\ Len(key) >= 1 /\ Len(key) <= 10
  /\ \A i \in 1..Len(key) : IsDigit(key[i])
  /\ (Len(key) = 1 \/ key[1] # 48)
  /\ ~Less(Str(<<"4", "2", "9", "4", "9", "6", "7", "2", "9", "4">>), key)

\* A new own member among the others: an array index goes before the
\* greater indices and before every other key, any other key goes last.
InsertMember(pairs, key, val) ==
  LET before == IF IsIndex(key)
                THEN Cardinality({i \in 1..Len(pairs) :
                       IsIndex(pairs[i][1]) /\ Less(pairs[i][1], key)})
                ELSE Len(pairs)
  IN SubSeq(pairs, 1, before) \o << <<key, val>> >> \o SubSeq(pairs, before + 1, Len(pairs))

\* An own member key: val is defined (CreateDataProperty, as JSON.parse
\* does): a key already there keeps its place and takes the new value.
DefineMember(pairs, key, val) ==
  IF \E i \in 1..Len(pairs) : pairs[i][1] = key
  THEN [i \in 1..Len(pairs) |-> IF pairs[i][1] = key THEN <<key, val>> ELSE pairs[i]]
  ELSE InsertMember(pairs, key, val)

\* obj[key] = val on the own members of an ordinary object, for a val that
\* is no object: a key that is no own member yet and is named __proto__
\* reaches the setter of Object.prototype, which ignores such a value.
SetMember(pairs, key, val) ==
  IF key = Str(<<"_", "_", "p", "r", "o", "t", "o", "_", "_">>) /\ ~\E i \in 1..Len(pairs) : pairs[i][1] = key
  THEN pairs
  ELSE DefineMember(pairs, key, val)

\* ToBoolean: what `token && ...` and `!payload` test.
Truthy(v) ==
  CASE v.t \in {"null", "undefined", "false"} -> FALSE
    [] v.t = "string" -> v.s # <<>>
    [] v.t = "number" -> v.s # <<48>>
    [] OTHER -> TRUE

\* The methods of Object.prototype, each the characters of its name with
\* its number of parameters.
ObjectMethods ==
  << <<<<"_", "_", "d", "e", "f", "i", "n", "e", "G", "e", "t", "t", "e", "r", "_", "_">>, 2>>,
     <<<<"_", "_", "d", "e", "f", "i", "n", "e", "S", "e", "t", "t", "e", "r", "_", "_">>, 2>>,
     <<<<"h", "a", "s", "O", "w", "n", "P", "r", "o", "p", "e", "r", "t", "y">>, 1>>,
     <<<<"_", "_", "l", "o", "o", "k", "u", "p", "G", "e", "t", "t", "e", "r", "_", "_">>, 1>>,
     <<<<"_", "_", "l", "o", "o", "k", "u", "p", "S", "e", "t", "t", "e", "r", "_", "_">>, 1>>,
     <<<<"i", "s", "P", "r", "o", "t", "o", "t", "y", "p", "e", "O", "f">>, 1>>,
     <<<<"p", "r", "o", "p", "e", "r", "t", "y", "I", "s", "E", "n", "u", "m", "e", "r", "a", "b", "l", "e">>, 1>>,
     <<<<"t", "o", "S", "t", "r", "i", "n", "g">>, 0>>,
     <<<<"v", "a", "l", "u", "e", "O", "f">>, 0>>,
     <<<<"t", "o", "L", "o", "c", "a", "l", "e", "S", "t", "r", "i", "n", "g">>, 0>> >>

\* The methods of String.prototype (trimLeft and trimRight are trimStart and
\* trimEnd under a second name).
StringMethods ==
  << <<<<"a", "n", "c", "h", "o", "r">>, 1>>,
     <<<<"a", "t">>, 1>>,
     <<<<"b", "i", "g">>, 0>>,
     <<<<"b", "l", "i", "n", "k">>, 0>>,
     <<<<"b", "o", "l", "d">>, 0>>,
     <<<<"c", "h", "a", "r", "A", "t">>, 1>>,
     <<<<"c", "h", "a", "r", "C", "o", "d", "e", "A", "t">>, 1>>,
     <<<<"c", "o", "d", "e", "P", "o", "i", "n", "t", "A", "t">>, 1>>,
     <<<<"c", "o", "n", "c", "a", "t">>, 1>>,
     <<<<"e", "n", "d", "s", "W", "i", "t", "h">>, 1>>,
     <<<<"f", "o", "n", "t", "c", "o", "l", "o", "r">>, 1>>,
     <<<<"f", "o", "n", "t", "s", "i", "z", "e">>, 1>>,
     <<<<"f", "i", "x", "e", "d">>, 0>>,
     <<<<"i", "n", "c", "l", "u", "d", "e", "s">>, 1>>,
     <<<<"i", "n", "d", "e", "x", "O", "f">>, 1>>,
     <<<<"i", "s", "W", "e", "l", "l", "F", "o", "r", "m", "e", "d">>, 0>>,
     <<<<"i", "t", "a", "l", "i", "c", "s">>, 0>>,
     <<<<"l", "a", "s", "t", "I", "n", "d", "e", "x", "O", "f">>, 1>>,
     <<<<"l", "i", "n", "k">>, 1>>,
     <<<<"l", "o", "c", "a", "l", "e", "C", "o", "m", "p", "a", "r", "e">>, 1>>,
     <<<<"m", "a", "t", "c", "h">>, 1>>,
     <<<<"m", "a", "t", "c", "h", "A", "l", "l">>, 1>>,
     <<<<"n", "o", "r", "m", "a", "l", "i", "z", "e">>, 0>>,
     <<<<"p", "a", "d", "E", "n", "d">>, 1>>,
     <<<<"p", "a", "d", "S", "t", "a", "r", "t">>, 1>>,
     <<<<"r", "e", "p", "e", "a", "t">>, 1>>,
     <<<<"r", "e", "p", "l", "a", "c", "e">>, 2>>,
     <<<<"r", "e", "p", "l", "a", "c", "e", "A", "l", "l">>, 2>>,
     <<<<"s", "e", "a", "r", "c", "h">>, 1>>,
     <<<<"s", "l", "i", "c", "e">>, 2>>,
     <<<<"s", "m", "a", "l", "l">>, 0>>,
     <<<<"s", "p", "l", "i", "t">>, 2>>,
     <<<<"s", "t", "r", "i", "k", "e">>, 0>>,
     <<<<"s", "u", "b">>, 0>>,
     <<<<"s", "u", "b", "s", "t", "r">>, 2>>,
     <<<<"s", "u", "b", "s", "t", "r", "i", "n", "g">>, 2>>,
     <<<<"s", "u", "p">>, 0>>,
     <<<<"s", "t", "a", "r", "t", "s", "W", "i", "t", "h">>, 1>>,
     <<<<"t", "o", "S", "t", "r", "i", "n", "g">>, 0>>,
     <<<<"t", "o", "W", "e", "l", "l", "F", "o", "r", "m", "e", "d">>, 0>>,
     <<<<"t", "r", "i", "m">>, 0>>,
     <<<<"t", "r", "i", "m", "S", "t", "a", "r", "t">>, 0>>,
     <<<<"t", "r", "i", "m", "E", "n", "d">>, 0>>,
     <<<<"t", "o", "L", "o", "c", "a", "l", "e", "L", "o", "w", "e", "r", "C", "a", "s", "e">>, 0>>,
     <<<<"t", "o", "L", "o", "c", "a", "l", "e", "U", "p", "p", "e", "r", "C", "a", "s", "e">>, 0>>,
     <<<<"t", "o", "L", "o", "w", "e", "r", "C", "a", "s", "e">>, 0>>,
     <<<<"t", "o", "U", "p", "p", "e", "r", "C", "a", "s", "e">>, 0>>,
     <<<<"v", "a", "l", "u", "e", "O", "f">>, 0>> >>

\* The methods of Array.prototype.
ArrayMethods ==
  << <<<<"a", "t">>, 1>>,
     <<<<"c", "o", "n", "c", "a", "t">>, 1>>,
     <<<<"c", "o", "p", "y", "W", "i", "t", "h", "i", "n">>, 2>>,
     <<<<"f", "i", "l", "l">>, 1>>,
     <<<<"f", "i", "n", "d">>, 1>>,
     <<<<"f", "i", "n", "d", "I", "n", "d", "e", "x">>, 1>>,
     <<<<"f", "i", "n", "d", "L", "a", "s", "t">>, 1>>,
     <<<<"f", "i", "n", "d", "L", "a", "s", "t", "I", "n", "d", "e", "x">>, 1>>,
     <<<<"l", "a", "s", "t", "I", "n", "d", "e", "x", "O", "f">>, 1>>,
     <<<<"p", "o", "p">>, 0>>,
     <<<<"p", "u", "s", "h">>, 1>>,
     <<<<"r", "e", "v", "e", "r", "s", "e">>, 0>>,
     <<<<"s", "h", "i", "f", "t">>, 0>>,
     <<<<"u", "n", "s", "h", "i", "f", "t">>, 1>>,
     <<<<"s", "l", "i", "c", "e">>, 2>>,
     <<<<"s", "o", "r", "t">>, 1>>,
     <<<<"s", "p", "l", "i", "c", "e">>, 2>>,
     <<<<"i", "n", "c", "l", "u", "d", "e", "s">>, 1>>,
     <<<<"i", "n", "d", "e", "x", "O", "f">>, 1>>,
     <<<<"j", "o", "i", "n">>, 1>>,
     <<<<"k", "e", "y", "s">>, 0>>,
     <<<<"e", "n", "t", "r", "i", "e", "s">>, 0>>,
     <<<<"v", "a", "l", "u", "e", "s">>, 0>>,
     <<<<"f", "o", "r", "E", "a", "c", "h">>, 1>>,
     <<<<"f", "i", "l", "t", "e", "r">>, 1>>,
     <<<<"f", "l", "a", "t">>, 0>>,
     <<<<"f", "l", "a", "t", "M", "a", "p">>, 1>>,
     <<<<"m", "a", "p">>, 1>>,
     <<<<"e", "v", "e", "r", "y">>, 1>>,
     <<<<"s", "o", "m", "e">>, 1>>,
     <<<<"r", "e", "d", "u", "c", "e">>, 1>>,
     <<<<"r", "e", "d", "u", "c", "e", "R", "i", "g", "h", "t">>, 1>>,
     <<<<"t", "o", "L", "o", "c", "a", "l", "e", "S", "t", "r", "i", "n", "g">>, 0>>,
     <<<<"t", "o", "S", "t", "r", "i", "n", "g">>, 0>>,
     <<<<"t", "o", "R", "e", "v", "e", "r", "s", "e", "d">>, 0>>,
     <<<<"t", "o", "S", "o", "r", "t", "e", "d">>, 1>>,
     <<<<"t", "o", "S", "p", "l", "i", "c", "e", "d">>, 2>>,
     <<<<"w", "i", "t", "h">>, 2>> >>

\* The methods of Number.prototype.
NumberMethods ==
  << <<<<"t", "o", "E", "x", "p", "o", "n", "e", "n", "t", "i", "a", "l">>, 1>>,
     <<<<"t", "o", "F", "i", "x", "e", "d">>, 1>>,
     <<<<"t", "o", "P", "r", "e", "c", "i", "s", "i", "o", "n">>, 1>>,
     <<<<"t", "o", "S", "t", "r", "i", "n", "g">>, 1>>,
     <<<<"v", "a", "l", "u", "e", "O", "f">>, 0>>,
     <<<<"t", "o", "L", "o", "c", "a", "l", "e", "S", "t", "r", "i", "n", "g">>, 0>> >>

\* The methods of Boolean.prototype.
BooleanMethods ==
  << <<<<"t", "o", "S", "t", "r", "i", "n", "g">>, 0>>,
     <<<<"v", "a", "l", "u", "e", "O", "f">>, 0>> >>

\* The methods of Function.prototype.
FunctionMethods ==
  << <<<<"a", "p", "p", "l", "y">>, 2>>,
     <<<<"b", "i", "n", "d">>, 1>>,
     <<<<"c", "a", "l", "l">>, 1>>,
     <<<<"t", "o", "S", "t", "r", "i", "n", "g">>, 0>> >>


\* The name of a built-in constructor as text.
ClassText(class) ==
  CASE class = "Object" -> Str(<<"O", "b", "j", "e", "c", "t">>)
    [] class = "String" -> Str(<<"S", "t", "r", "i", "n", "g">>)
    [] class = "Array" -> Str(<<"A", "r", "r", "a", "y">>)
    [] class = "Number" -> Str(<<"N", "u", "m", "b", "e", "r">>)
    [] class = "Boolean" -> Str(<<"B", "o", "o", "l", "e", "a", "n">>)
    [] class = "Function" -> Str(<<"F", "u", "n", "c", "t", "i", "o", "n">>)

\* The methods of a table, each under its name as text.
Named(table) == [i \in 1..Len(table) |-> <<Str(table[i][1]), table[i][2]>>]

\* The methods of the prototype of each built-in constructor.
Prototypes ==
  [class \in {"Object", "String", "Array", "Number", "Boolean", "Function"} |->
     Named(CASE class = "Object" -> ObjectMethods
             [] class = "String" -> StringMethods
             [] class = "Array" -> ArrayMethods
             [] class = "Number" -> NumberMethods
             [] class = "Boolean" -> BooleanMethods
             [] class = "Function" -> FunctionMethods)]

\* The methods of the prototype of a built-in constructor.
MethodsOf(class) == Prototypes[class]

\* The name under which a method is kept.
MethodName(class, key) ==
  IF class = "String" /\ key = Str(<<"t", "r", "i", "m", "L", "e", "f", "t">>) THEN Str(<<"t", "r", "i", "m", "S", "t", "a", "r", "t">>)
  ELSE IF class = "String" /\ key = Str(<<"t", "r", "i", "m", "R", "i", "g", "h", "t">>) THEN Str(<<"t", "r", "i", "m", "E", "n", "d">>)
  ELSE key

KeyConstructor == Str(<<"c", "o", "n", "s", "t", "r", "u", "c", "t", "o", "r">>)
DotPrototype == Str(<<".", "p", "r", "o", "t", "o", "t", "y", "p", "e">>)

\* The prototype with these methods has a member key, kept under the name.
HasMember(methods, name, key) ==
  \/ key = KeyConstructor
  \/ \E i \in 1..Len(methods) : methods[i][1] = name

\* The member key of the prototype of a built-in constructor of the text
\* classText, with these methods, the member kept under the name.
Member(classText, methods, name, key) ==
  IF key = KeyConstructor THEN JFunction(<<>>, classText, 1)
  ELSE JFunction(classText \o DotPrototype \o <<46>>, name,
                 methods[CHOOSE i \in 1..Len(methods) : methods[i][1] = name][2])

\* The built-in constructor whose prototype is named by the text.
ClassNamed(text) ==
  CHOOSE c \in {"Object", "String", "Array", "Number", "Boolean", "Function"} :
    text = ClassText(c) \o DotPrototype

\* The built-in constructor whose prototype a value inherits from.
ClassOf(v) ==
  CASE v.t = "string" -> "String"
    [] v.t = "array" -> "Array"
    [] v.t = "number" -> "Number"
    [] v.t \in {"true", "false"} -> "Boolean"
    [] v.t = "function" -> "Function"
    [] v.t = "object" -> IF v.s = <<>> THEN "Object" ELSE ClassNamed(v.s)

\* What __proto__ reads on a value of the class: the prototype it inherits
\* from, null on Object.prototype itself.
ProtoOf(v, class, classText) ==
  IF v.t = "object" /\ v.s # <<>>
  THEN (IF class = "Object" THEN JNull ELSE JBuiltin(Str(<<"O", "b", "j", "e", "c", "t">>) \o DotPrototype))
  ELSE JBuiltin(classText \o DotPrototype)

\* A member that a value of the class inherits: from the prototype of its
\* constructor, whose methods are own, then from Object.prototype, whose
\* methods are base and whose __proto__ reads the prototype itself.
InheritedIn(v, key, class, classText, own, base) ==
  IF HasMember(own, MethodName(class, key), key)
    THEN Member(classText, own, MethodName(class, key), key)
  ELSE IF HasMember(base, key, key) THEN Member(Str(<<"O", "b", "j", "e", "c", "t">>), base, key, key)
  ELSE IF key = Str(<<"_", "_", "p", "r", "o", "t", "o", "_", "_">>) THEN ProtoOf(v, class, classText)
  ELSE JUndefined

\* A member that a value of the class inherits.
InheritedAs(v, key, class) ==
  InheritedIn(v, key, class, ClassText(class), MethodsOf(class), MethodsOf("Object"))

\* A member that a value inherits.
Inherited(v, key) == InheritedAs(v, key, ClassOf(v))

\* The key is an array index below n.
IndexBelow(key, n) == IsIndex(key) /\ Less([i \in 1..Len(key) |-> key[i] - 48], Digits(n))

\* The elements of a value: the code units of a string (a built-in
\* prototype holds none), the elements of an array.
Elements(v) ==
  IF v.t = "string" THEN [i \in 1..Len(v.s) |-> JStr(<<v.s[i]>>)]
  ELSE IF v.t = "array" THEN [i \in 1..Len(v.m) |-> v.m[i][2]]
  ELSE <<>>

\* value[key] on a value with these elements and without an own member
\* key: the length and the elements of a string or array, else an
\* inherited member.
GetInner(v, key, elems) ==
  IF key = Str(<<"l", "e", "n", "g", "t", "h">>) /\ (v.t \in {"string", "array"}
       \/ (v.t = "object" /\ v.s \in {Str(<<"S", "t", "r", "i", "n", "g">>) \o DotPrototype, Str(<<"A", "r", "r", "a", "y">>) \o DotPrototype}))
    THEN JNum(NatText(Len(elems)))
  ELSE IF IndexBelow(key, Len(elems))
    THEN elems[DigitsValue([i \in 1..Len(key) |-> key[i] - 48]) + 1]
  ELSE IF v.t = "function" /\ key \in {Str(<<"c", "a", "l", "l", "e", "r">>), Str(<<"a", "r", "g", "u", "m", "e", "n", "t", "s">>)} THEN Thrown
  ELSE Inherited(v, key)

\* value[key]: reading a property of null or undefined throws a TypeError;
\* else an own member (of an object or function, the length and the
\* elements of a string or array), else an inherited one, else undefined.
GetProp(v, key) ==
  IF v.t \in {"null", "undefined", "throw"} THEN Thrown
  ELSE IF v.t \in {"object", "function"} /\ \E i \in 1..Len(v.m) : v.m[i][1] = key
    THEN v.m[CHOOSE i \in 1..Len(v.m) : v.m[i][1] = key][2]
  ELSE IF v = JBare THEN JUndefined
  ELSE GetInner(v, key, Elements(v))

\* The values of the properties of a value under the keys, in order.
Fields(v, keys) == [i \in 1..Len(keys) |-> GetProp(v, keys[i])]

HexDigits ==
  Str(<<"0", "1", "2", "3", "4", "5", "6", "7", "8", "9", "a", "b", "c", "d", "e", "f">>)

\* The code unit at index i of str inside a JSON string literal: a lone
\* surrogate is written \udXXX, a pair as it is.
QuotePiece(str, i) ==
  LET c == str[i] IN
  IF c = 34 THEN <<92, 34>>
  ELSE IF c = 92 THEN <<92, 92>>
  ELSE IF c = 8 THEN <<92, 98>>
  ELSE IF c = 9 THEN <<92, 116>>
  ELSE IF c = 10 THEN <<92, 110>>
  ELSE IF c = 12 THEN <<92, 102>>
  ELSE IF c = 13 THEN <<92, 114>>
  ELSE IF c < 32 \/ IsLone(str, i)
    THEN <<92, 117, HexDigits[(c \div 4096) + 1], HexDigits[((c \div 256) % 16) + 1],
           HexDigits[((c \div 16) % 16) + 1], HexDigits[(c % 16) + 1]>>
  ELSE <<c>>

RECURSIVE QuoteChars(_, _, _)
\* The characters of str[lo..hi] inside a JSON string literal, the range
\* being halved.
QuoteChars(str, lo, hi) ==
  IF lo > hi THEN <<>>
  ELSE IF lo = hi THEN QuotePiece(str, lo)
  ELSE QuoteChars(str, lo, (lo + hi) \div 2) \o QuoteChars(str, ((lo + hi) \div 2) + 1, hi)

Quote(str) == <<34>> \o QuoteChars(str, 1, Len(str)) \o <<34>>

RECURSIVE JsonStringify(_)
RECURSIVE StringifyMembers(_, _, _)
\* The members of an object or array from index i on, comma separated; an
\* object member whose value is undefined (or a function) is left out, an
\* array element of that kind is written null.
StringifyMembers(v, i, first) ==
  IF i > Len(v.m) THEN <<>>
  ELSE LET val == v.m[i][2]
           skip == v.t = "object" /\ val.t \in {"undefined", "function"}
       IN IF skip THEN StringifyMembers(v, i + 1, first)
          ELSE (IF first THEN <<>> ELSE <<44>>)
               \o (IF v.t = "object" THEN Quote(v.m[i][1]) \o <<58>> ELSE <<>>)
               \o (IF val.t \in {"undefined", "function"}
                   THEN Str(<<"n", "u", "l", "l">>) ELSE JsonStringify(val))
               \o StringifyMembers(v, i + 1, FALSE)

\* JSON.stringify(value), without indentation, of a value that is neither
\* undefined nor a function; an infinite Number is written null.
JsonStringify(v) ==
  CASE v.t = "null" -> Str(<<"n", "u", "l", "l">>)
    [] v.t = "true" -> Str(<<"t", "r", "u", "e">>)
    [] v.t = "false" -> Str(<<"f", "a", "l", "s", "e">>)
    [] v.t = "number" ->
         IF v.s \in {Infinity, <<45>> \o Infinity} THEN Str(<<"n", "u", "l", "l">>) ELSE v.s
    [] v.t = "string" -> Quote(v.s)
    [] v.t = "array" -> <<91>> \o StringifyMembers(v, 1, TRUE) \o <<93>>
    [] v.t = "object" -> <<123>> \o StringifyMembers(v, 1, TRUE) \o <<125>>

IsWs(c) == c \in {32, 9, 10, 13}

\* The index of the first character from i on that is no JSON white space.
SkipWs(s, i) ==
  IF i > Len(s) \/ ~IsWs(s[i]) THEN i
  ELSE Min({j \in i..Len(s) : ~IsWs(s[j])} \cup {Len(s) + 1})

\* The index of the first character from i on that is no digit.
SkipDigits(s, i) ==
  IF i > Len(s) \/ ~IsDigit(s[i]) THEN i
  ELSE Min({j \in i..Len(s) : ~IsDigit(s[j])} \cup {Len(s) + 1})

\* A parse result: ok, the value, and the index after it.
Bad == [ok |-> FALSE, v |-> JNull, i |-> 0]
Good(v, i) == [ok |-> TRUE, v |-> v, i |-> i]

HexVal(c) ==
  IF IsDigit(c) THEN c - 48
  ELSE IF c >= 97 /\ c <= 102 THEN c - 87
  ELSE IF c >= 65 /\ c <= 70 THEN c - 55
  ELSE -1

\* The number of backslashes that stand in a row just before index k of s,
\* from index i on.
Backslashes(s, i, k) ==
  (k - 1) - Max({q \in (i - 1)..(k - 1) : q = i - 1 \/ s[q] # 92})

\* In the string literal whose body starts at index i of s, the backslash
\* at index k starts an escape.
EscapeAt(s, i, k) == k >= i /\ s[k] = 92 /\ Backslashes(s, i, k) % 2 = 0

\* The escape at index k of s is well formed.
EscapeOk(s, k) ==
  /\ k + 1 <= Len(s)
  /\ \/ s[k + 1] \in {34, 92, 47, 98, 102, 110, 114, 116}
     \/ s[k + 1] = 117 /\ k + 5 <= Len(s) /\ \A j \in 2..5 : HexVal(s[k + j]) >= 0

\* What index k contributes to the string whose literal body starts at
\* index i of s: the character an escape stands for, nothing for the
\* characters of an escape after its backslash, else the character.
StringPiece(s, i, k) ==
  IF EscapeAt(s, i, k) THEN
    (CASE s[k + 1] = 98 -> <<8>>
       [] s[k + 1] = 102 -> <<12>>
       [] s[k + 1] = 110 -> <<10>>
       [] s[k + 1] = 114 -> <<13>>
       [] s[k + 1] = 116 -> <<9>>
       [] s[k + 1] = 117 -> <<HexVal(s[k + 2]) * 4096 + HexVal(s[k + 3]) * 256
                              + HexVal(s[k + 4]) * 16 + HexVal(s[k + 5])>>
       [] OTHER -> <<s[k + 1]>>)
  ELSE IF EscapeAt(s, i, k - 1) THEN <<>>
  ELSE IF \E j \in 2..5 : EscapeAt(s, i, k - j) /\ s[k - j + 1] = 117 THEN <<>>
  ELSE <<s[k]>>

RECURSIVE StringRange(_, _, _, _)
\* The string of the literal body s[lo..hi], part of the body that starts
\* at index i, the range being halved.
StringRange(s, i, lo, hi) ==
  IF lo > hi THEN <<>>
  ELSE IF lo = hi THEN StringPiece(s, i, lo)
  ELSE StringRange(s, i, lo, (lo + hi) \div 2)
       \o StringRange(s, i, ((lo + hi) \div 2) + 1, hi)

\* The string literal whose body ends before the closing quote at index
\* close (0 when there is none): no control character, no ill-formed escape.
StringUpTo(s, i, close) ==
  IF close = 0 THEN Bad
  ELSE IF \E k \in i..(close - 1) : s[k] < 32 \/ (EscapeAt(s, i, k) /\ ~EscapeOk(s, k))
    THEN Bad
  ELSE Good(JStr(StringRange(s, i, i, close - 1)), close + 1)

\* A string literal from the character after its opening quote: it ends at
\* the first quote that no backslash escapes.
ParseStringBody(s, i) ==
  StringUpTo(s, i, Min({k \in i..Len(s) : s[k] = 34 /\ Backslashes(s, i, k) % 2 = 0}
                       \cup {Len(s) + 1}) % (Len(s) + 1))

\* A number: -? (0 | [1-9][0-9]*) (. [0-9]+)? ([eE] [+-]? [0-9]+)?
\* i1 is the index after the sign, i2 after the integer part, i3 after the
\* fraction, j that of the first digit of the exponent and i4 the index
\* after the number.
NumberAt(s, i, i1, i2, i3, j, i4) ==
  Good(JNum(NumberText(s[i] = 45,
                       [k \in 1..(i2 - i1) |-> s[i1 + k - 1] - 48],
                       [k \in 1..(i3 - i2 - 1) |-> s[i2 + k] - 48],
                       i4 > i3 /\ s[j - 1] = 45,
                       [k \in 1..(i4 - j) |-> s[j + k - 1] - 48])),
       i4)

ParseNumber(s, i) ==
  LET i1 == IF s[i] = 45 THEN i + 1 ELSE i IN
  IF i1 > Len(s) \/ ~IsDigit(s[i1]) THEN Bad
  ELSE
    LET i2 == IF s[i1] = 48 THEN i1 + 1 ELSE SkipDigits(s, i1)
        i3 == IF i2 <= Len(s) /\ s[i2] = 46
              THEN (IF i2 + 1 <= Len(s) /\ IsDigit(s[i2 + 1])
                    THEN SkipDigits(s, i2 + 1) ELSE 0)
              ELSE i2
        j  == IF i3 + 1 <= Len(s) /\ s[i3 + 1] \in {43, 45} THEN i3 + 2 ELSE i3 + 1
        i4 == IF i3 = 0 THEN 0
              ELSE IF i3 <= Len(s) /\ s[i3] \in {69, 101}
              THEN (IF j <= Len(s) /\ IsDigit(s[j]) THEN SkipDigits(s, j) ELSE 0)
              ELSE i3
    IN IF i4 = 0 THEN Bad ELSE NumberAt(s, i, i1, i2, i3, j, i4)

\* The literal word w stands at index i of s.
HasWord(s, i, w) ==
  i + Len(w) - 1 <= Len(s) /\ \A k \in 1..Len(w) : s[i + k - 1] = w[k]

RECURSIVE ParseValue(_, _)
RECURSIVE ParseElems(_, _, _)
RECURSIVE ParseMembers(_, _, _)

\* The elements of an array, from the first one, up to the closing bracket.
ParseElems(s, i, acc) ==
  LET r == ParseValue(s, i) IN
  IF ~r.ok THEN Bad
  ELSE LET j == SkipWs(s, r.i) IN
    IF j > Len(s) THEN Bad
    ELSE IF s[j] = 44 THEN ParseElems(s, j + 1, Append(acc, r.v))
    ELSE IF s[j] = 93 THEN Good(JArr(Append(acc, r.v)), j + 1)
    ELSE Bad

\* The members of an object, from the first key, up to the closing brace.
ParseMembers(s, i, acc) ==
  LET k == SkipWs(s, i) IN
  IF k > Len(s) \/ s[k] # 34 THEN Bad
  ELSE LET key == ParseStringBody(s, k + 1) IN
    IF ~key.ok THEN Bad
    ELSE LET c == SkipWs(s, key.i) IN
      IF c > Len(s) \/ s[c] # 58 THEN Bad
      ELSE LET r == ParseValue(s, c + 1) IN
        IF ~r.ok THEN Bad
        ELSE LET j == SkipWs(s, r.i)
                 acc2 == DefineMember(acc, key.v.s, r.v)
             IN IF j > Len(s) THEN Bad
                ELSE IF s[j] = 44 THEN ParseMembers(s, j + 1, acc2)
                ELSE IF s[j] = 125 THEN Good(JObj(acc2), j + 1)
                ELSE Bad

\* One JSON value, after optional white space, from index i0.
ParseValue(s, i0) ==
  LET i == SkipWs(s, i0) IN
  IF i > Len(s) THEN Bad
  ELSE IF s[i] = 34 THEN ParseStringBody(s, i + 1)
  ELSE IF s[i] = 45 \/ IsDigit(s[i]) THEN ParseNumber(s, i)
  ELSE IF HasWord(s, i, Str(<<"t", "r", "u", "e">>)) THEN Good(JBool(TRUE), i + 4)
  ELSE IF HasWord(s, i, Str(<<"f", "a", "l", "s", "e">>)) THEN Good(JBool(FALSE), i + 5)
  ELSE IF HasWord(s, i, Str(<<"n", "u", "l", "l">>)) THEN Good(JNull, i + 4)
  ELSE IF s[i] = 91 THEN
    LET j == SkipWs(s, i + 1) IN
    IF j <= Len(s) /\ s[j] = 93 THEN Good(JArr(<<>>), j + 1)
    ELSE ParseElems(s, i + 1, <<>>)
  ELSE IF s[i] = 123 THEN
    LET j == SkipWs(s, i + 1) IN
    IF j <= Len(s) /\ s[j] = 125 THEN Good(JObj(<<>>), j + 1)
    ELSE ParseMembers(s, i + 1, <<>>)
  ELSE Bad

\* JSON.parse(text): the value, or a SyntaxError when the text is not one
\* JSON value surrounded by optional white space.
JsonParse(text) ==
  LET r == ParseValue(text, 1) IN
  IF r.ok /\ SkipWs(text, r.i) > Len(text) THEN r.v ELSE Thrown

(***************************************************************************)
(* The token codec (lines 11-25, and again 185-199)                        *)
(***************************************************************************)

\* JS strict equality (===) of two values: by value for primitives (two
\* Numbers of the same text are the same double, 0 and -0 sharing theirs);
\* by identity for the rest, where two built-in functions or objects are
\* the same when their names are and two other objects or arrays, built
\* by separate parses or literals, never are.
StrictEq(a, b) ==
  /\ a.t = b.t
  /\ \/ a.t \in {"null", "undefined", "true", "false", "number", "string"}
     \/ a.t \in {"function", "object"} /\ a.s # <<>> /\ a # JBare
  /\ a.s = b.s

\* { alg: "none", typ: "JWT" }
JwtHeader ==
  JObj(<< << Str(<<"a", "l", "g">>), JStr(Str(<<"n", "o", "n", "e">>)) >>,
          << Str(<<"t", "y", "p">>), JStr(Str(<<"J", "W", "T">>)) >> >>)

\* Buffer.from(JSON.stringify(x)).toString("base64")
EncodeSegment(x) == Base64Encode(Utf8Encode(JsonStringify(x)))

\* createToken(payload): `${header}.${body}.`
createToken(payload) ==
  EncodeSegment(JwtHeader) \o <<46>> \o EncodeSegment(payload) \o <<46>>

\* The try block of verifyToken: token.split(".") throws a TypeError when
\* token is not a string, JSON.parse a SyntaxError.
verifyTokenTry(token) ==
  IF token.t # "string" THEN Thrown
  ELSE LET parts == Split(token.s, 46) IN
       IF Len(parts) < 2 THEN JNull
       ELSE JsonParse(Utf8Decode(Base64Decode(parts[2])))

\* catch (e) { return null; } around a block that gave r.
CatchNull(r) == IF r.t = "throw" THEN JNull ELSE r

\* verifyToken(token): the try block, with catch (e) { return null }.
verifyToken(token) == CatchNull(verifyTokenTry(token))

\* A claim for one fixed subject, whatever the email.
ClaimFixed(email) == JObj(<< << Str(<<"s", "u", "b">>), JStr(Str(<<"a">>)) >> >>)

\* The session claim { sub: email }.
Claim(email) == JObj(<< << Str(<<"s", "u", "b">>), email >> >>)

(***************************************************************************)
(* URI component coding                                                    *)
(***************************************************************************)

UpperHex ==
  Str(<<"0", "1", "2", "3", "4", "5", "6", "7", "8", "9", "A", "B", "C", "D", "E", "F">>)

IsAlnum(c) == IsDigit(c) \/ (c >= 65 /\ c <= 90) \/ (c >= 97 /\ c <= 122)

\* The %XX escapes of a few bytes.
PercentEncodeBytes(b) ==
  [j \in 1..(3 * Len(b)) |->
     LET v == b[((j - 1) \div 3) + 1] IN
     CASE (j - 1) % 3 = 0 -> 37
       [] (j - 1) % 3 = 1 -> UpperHex[(v \div 16) + 1]
       [] (j - 1) % 3 = 2 -> UpperHex[(v % 16) + 1]]

RECURSIVE encodeURIRange(_, _, _)
encodeURIRange(s, lo, hi) ==
  IF lo > hi THEN <<>>
  ELSE IF lo = hi THEN
    (IF IsAlnum(s[lo]) \/ s[lo] \in {45, 95, 46, 33, 126, 42, 39, 40, 41}
     THEN <<s[lo]>>
     ELSE PercentEncodeBytes(Utf8UnitBytes(s, lo)))
  ELSE encodeURIRange(s, lo, (lo + hi) \div 2)
       \o encodeURIRange(s, ((lo + hi) \div 2) + 1, hi)

\* encodeURIComponent: all but A-Z a-z 0-9 - _ . ! ~ * ' ( ) is written as
\* the %XX of the UTF-8 bytes of its code point; a lone surrogate raises a
\* URIError.
encodeURIComponent(s) ==
  IF \E i \in 1..Len(s) : IsLone(s, i) THEN Thrown
  ELSE JStr(encodeURIRange(s, 1, Len(s)))

\* The byte written %XX at index i of s, -1 when no such escape stands there.
PctByte(s, i) ==
  IF i >= 1 /\ i + 2 <= Len(s) /\ s[i] = 37 /\ HexVal(s[i + 1]) >= 0 /\ HexVal(s[i + 2]) >= 0
  THEN HexVal(s[i + 1]) * 16 + HexVal(s[i + 2])
  ELSE -1

\* The escapes of one well-formed UTF-8 sequence of two to four bytes start
\* at index i of s.
EscSeqAt(s, i) ==
  /\ Utf8Need(PctByte(s, i)) > 0
  /\ \A k \in 1..Utf8Need(PctByte(s, i)) :
       IsCont(PctByte(s, i), k, PctByte(s, i + 3 * k))

\* The escape at index i of s continues a well-formed sequence before it.
EscCovered(s, i) ==
  \E k \in 1..3 : EscSeqAt(s, i - 3 * k) /\ Utf8Need(PctByte(s, i - 3 * k)) >= k

\* The character at index i of s is one of the two hex digits of an escape.
InEscape(s, i) == PctByte(s, i - 1) >= 0 \/ PctByte(s, i - 2) >= 0

\* decodeURIComponent raises a URIError at index i: a "%" that is no %XX,
\* or an escape of 128 and above that neither starts nor continues the
\* escapes of one well-formed UTF-8 sequence.
UriErrorAt(s, i) ==
  /\ s[i] = 37
  /\ \/ PctByte(s, i) < 0
     \/ PctByte(s, i) >= 128 /\ ~EscSeqAt(s, i) /\ ~EscCovered(s, i)

\* What index i of s contributes to the decoded string.
UriPiece(s, i) ==
  IF s[i] # 37 THEN (IF InEscape(s, i) THEN <<>> ELSE <<s[i]>>)
  ELSE IF PctByte(s, i) < 128 THEN <<PctByte(s, i)>>
  ELSE IF EscSeqAt(s, i)
    THEN Utf16Units(Utf8CodePoint(
           [k \in 1..(Utf8Need(PctByte(s, i)) + 1) |-> PctByte(s, i + 3 * (k - 1))], 1))
  ELSE <<>>

RECURSIVE DecodeURIRange(_, _, _)
DecodeURIRange(s, lo, hi) ==
  IF lo > hi THEN <<>>
  ELSE IF lo = hi THEN UriPiece(s, lo)
  ELSE DecodeURIRange(s, lo, (lo + hi) \div 2)
       \o DecodeURIRange(s, ((lo + hi) \div 2) + 1, hi)

\* decodeURIComponent(x): x is first converted to a string, so that
\* decodeURIComponent(undefined) is "undefined".
decodeURIComponent(x) ==
  IF x.t = "undefined"
  THEN JStr(Str(<<"u", "n", "d", "e", "f", "i", "n", "e", "d">>))
  ELSE IF \E i \in 1..Len(x.s) : UriErrorAt(x.s, i) THEN Thrown
  ELSE JStr(DecodeURIRange(x.s, 1, Len(x.s)))

\* The WhiteSpace and LineTerminator code units that trim() removes.
IsTrimmed(c) ==
  \/ c \in {9, 10, 11, 12, 13, 32, 160, 5760, 8232, 8233, 8239, 8287, 12288, 65279}
  \/ c >= 8192 /\ c <= 8202

\* String.prototype.trimStart, as the index of the first code unit kept.
TrimLeft(s) ==
  Min({i \in 1..Len(s) : ~IsTrimmed(s[i])} \cup {Len(s) + 1})

\* String.prototype.trimEnd, as the index of the last code unit kept.
TrimRight(s) ==
  Len(s) - Min({k \in 0..(Len(s) - 1) : ~IsTrimmed(s[Len(s) - k])} \cup {Len(s)})

\* String.prototype.trim
Trim(s) == SubSeq(s, TrimLeft(s), TrimRight(s))

(***************************************************************************)
(* Cookies                                                                 *)
(***************************************************************************)

AccessToken ==
  Str(<<"a", "c", "c", "e", "s", "s", "_", "t", "o", "k", "e", "n">>)

\* list[parts[0].trim()] = decodeURIComponent(parts[1]), val being the
\* decoded parts[1]; a URIError leaves the loop and the function.
parseCookiesSet(list, parts, val) ==
  IF list.t = "throw" \/ val.t = "throw" THEN Thrown
  ELSE JObj(SetMember(list.m, Trim(parts[1]), val))

\* The callback of the forEach of parseCookies on one ";" piece, where
\* parts = cookie.split("=").
parseCookiesEach(list, parts) ==
  parseCookiesSet(list, parts,
    decodeURIComponent(IF Len(parts) >= 2 THEN JStr(parts[2]) ELSE JUndefined))

RECURSIVE parseCookiesFrom(_, _, _, _)
\* The forEach of parseCookies over the ";" pieces lo to hi of the header,
\* which an exception ends.
parseCookiesFrom(pieces, lo, hi, list) ==
  IF list.t = "throw" \/ lo > hi THEN list
  ELSE IF lo = hi THEN parseCookiesEach(list, Split(pieces[lo], 61))
  ELSE parseCookiesFrom(pieces, ((lo + hi) \div 2) + 1, hi,
         parseCookiesFrom(pieces, lo, (lo + hi) \div 2, list))

\* The forEach of parseCookies over all the pieces, from an empty list.
parseCookiesOver(pieces) == parseCookiesFrom(pieces, 1, Len(pieces), JObj(<<>>))

\* parseCookies(req), given req.headers.cookie (a string, or undefined).
parseCookies(cookieHeader) ==
  IF ~Truthy(cookieHeader) THEN JObj(<<>>)
  ELSE parseCookiesOver(Split(cookieHeader.s, 59))

\* The catch of JSONCookie: undefined for an exception.
CatchUndefined(r) == IF r.t = "throw" THEN JUndefined ELSE r

\* cookie-parser's JSONCookie: the value of the JSON after "j:", undefined
\* for any other text and when the JSON does not parse.
JSONCookie(str) ==
  IF str.t = "string" /\ Len(str.s) >= 2 /\ str.s[1] = 106 /\ str.s[2] = 58
  THEN CatchUndefined(JsonParse(SubSeq(str.s, 3, Len(str.s))))
  ELSE JUndefined

\* The cookie module's startIndex: the first position from index on that
\* holds neither a space nor a tab, max when there is none before max.
startIndex(str, index, max) ==
  Min({i \in index..(max - 1) : str[i] \notin {32, 9}} \cup {max})

\* The cookie module's endIndex: the position after the last one before
\* index that holds neither a space nor a tab, min when there is none.
endIndex(str, index, min) ==
  Max({i + 1 : i \in {j \in min..(index - 1) : str[j] \notin {32, 9}}} \cup {min})

\* A cookie value between valStartIdx and valEndIdx, without its double
\* quotes when it both starts and ends with one.
Unquote(raw) ==
  IF raw # <<>> /\ raw[1] = 34 /\ raw[Len(raw)] = 34
  THEN SubSeq(raw, 2, Len(raw) - 1) ELSE raw

\* The decoded value dec, or the text val when decoding threw.
DecodedOr(dec, val) == IF dec.t = "throw" THEN JStr(val) ELSE dec

\* The cookie module's decode under tryDecode: a text with a "%" through
\* decodeURIComponent, the text as it is when that throws or when there is
\* no "%".
TryDecode(val) ==
  IF IndexOf(val, 37) = 0 THEN JStr(val)
  ELSE DecodedOr(decodeURIComponent(JStr(val)), val)

\* obj[key] = val unless obj has the key as its own already.
AddFirst(obj, key, val) ==
  IF \E k \in 1..Len(obj) : obj[k][1] = key THEN obj
  ELSE SetMember(obj, key, val)

\* The text of pair from position lo up to hi, without the spaces and tabs
\* around it.
CookieSlice(pair, lo, hi) ==
  SubSeq(pair, startIndex(pair, lo, hi + 1),
         endIndex(pair, hi + 1, startIndex(pair, lo, hi + 1)) - 1)

\* The cookie module's parse on one ";" piece whose first "=" is at eq: a
\* piece without "=" is skipped, the key is what precedes the first "=",
\* the value what follows it, unquoted and decoded; the first cookie of a
\* name wins.
cookieParseEach(obj, pair, eq) ==
  IF eq = 0 THEN obj
  ELSE AddFirst(obj, CookieSlice(pair, 1, eq - 1),
                TryDecode(Unquote(CookieSlice(pair, eq + 1, Len(pair)))))

RECURSIVE cookieParseFrom(_, _, _, _)
\* The cookie module's parse over the ";" pieces lo to hi, the members so
\* far evaluated at each step.
cookieParseFrom(pieces, lo, hi, obj) ==
  IF Len(obj) >= 0 /\ lo > hi THEN obj
  ELSE IF lo = hi THEN cookieParseEach(obj, pieces[lo], IndexOf(pieces[lo], 61))
  ELSE cookieParseFrom(pieces, ((lo + hi) \div 2) + 1, hi,
         cookieParseFrom(pieces, lo, (lo + hi) \div 2, obj))

\* The cookie module's parse over all the pieces, from an empty object.
cookieParseOver(pieces) == cookieParseFrom(pieces, 1, Len(pieces), <<>>)

\* The cookie module's parse: no cookie in a text of less than two
\* characters.
cookieParse(str) ==
  IF Len(str) < 2 THEN <<>> ELSE cookieParseOver(Split(str, 59))

\* val when it is truthy, else the value there was.
TruthyOr(val, was) == IF Truthy(val) THEN val ELSE was

\* cookie-parser's JSONCookies: each value whose JSONCookie is truthy is
\* replaced by it.
JSONCookies(obj) ==
  JObj([k \in 1..Len(obj) |-> <<obj[k][1], TruthyOr(JSONCookie(obj[k][2]), obj[k][2])>>])

\* The cookieParser() middleware (line 174): req.cookies from the Cookie
\* header, an object without prototype when there is none.
cookieParser(cookieHeader) ==
  IF ~Truthy(cookieHeader) THEN JBare
  ELSE JSONCookies(cookieParse(cookieHeader.s))

\* The Set-Cookie header of a successful register or login: line 111 and
\* 125 write the token as it is, res.cookie (lines 260, 270) writes
\* encodeURIComponent(token) and adds Path=/.
SetTokenCookie(variant, token) ==
  IF variant = "http"
  THEN AccessToken \o <<61>> \o token \o Str(<<";", " ", "H", "t", "t", "p", "O", "n", "l", "y">>)
  ELSE AccessToken \o <<61>> \o encodeURIComponent(token).s
       \o Str(<<";", " ", "P", "a", "t", "h", "=", "/", ";", " ",
                "H", "t", "t", "p", "O", "n", "l", "y">>)

\* A Set-Cookie header that empties the cookie and does not expire it.
EmptyTokenCookie(variant) == AccessToken \o <<61>>

\* The Set-Cookie header of logout: line 130, and res.clearCookie (line 275).
ClearTokenCookie(variant) ==
  IF variant = "http"
  THEN AccessToken \o Str(<<"=", ";", " ", "M", "a", "x", "-", "A", "g", "e", "=", "0">>)
  ELSE AccessToken
       \o Str(<<"=", ";", " ", "P", "a", "t", "h", "=", "/", ";", " ",
                "E", "x", "p", "i", "r", "e", "s", "=", "T", "h", "u", ",", " ",
                "0", "1", " ", "J", "a", "n", " ", "1", "9", "7", "0", " ",
                "0", "0", ":", "0", "0", ":", "0", "0", " ", "G", "M", "T">>)

(***************************************************************************)
(* The client (a browser): its cookie jar and its form bodies              *)
(***************************************************************************)

\* The attribute text marks the cookie as expired: Max-Age=0, or Expires
\* with the date of the epoch that clearCookie writes.
ExpiresNow(attr) ==
  \/ attr = Str(<<"M", "a", "x", "-", "A", "g", "e", "=", "0">>)
  \/ HasWord(attr, 1, Str(<<"E", "x", "p", "i", "r", "e", "s", "=">>))

\* The jar after a Set-Cookie header whose ";" pieces are given, the first
\* "=" of the first piece at eq.
ClientStorePieces(jar, pieces, eq) ==
  IF eq = 0 \/ Trim(SubSeq(pieces[1], 1, eq - 1)) # AccessToken THEN jar
  ELSE IF \E k \in 2..Len(pieces) : ExpiresNow(Trim(pieces[k])) THEN JUndefined
  ELSE JStr(Trim(SubSeq(pieces[1], eq + 1, Len(pieces[1]))))

\* The jar after a Set-Cookie header whose ";" pieces are given.
ClientStoreHeader(jar, pieces) == ClientStorePieces(jar, pieces, IndexOf(pieces[1], 61))

\* The jar (the value of the access_token cookie, or undefined) after a
\* response: a Set-Cookie header stores the text between the first "=" and
\* the first ";", or removes the cookie when an attribute expires it.
ClientStore(jar, setCookie) ==
  IF setCookie.t # "string" THEN jar
  ELSE ClientStoreHeader(jar, Split(setCookie.s, 59))

\* The Cookie header the client sends with its jar.
ClientCookie(jar) ==
  IF jar.t # "string" THEN JUndefined ELSE JStr(AccessToken \o <<61>> \o jar.s)

RECURSIVE FormEncodeRange(_, _, _)
FormEncodeRange(s, lo, hi) ==
  IF lo > hi THEN <<>>
  ELSE IF lo = hi THEN
    (IF s[lo] = 32 THEN <<43>>
     ELSE IF IsAlnum(s[lo]) \/ s[lo] \in {42, 45, 46, 95} THEN <<s[lo]>>
     ELSE PercentEncodeBytes(Utf8UnitBytes(s, lo)))
  ELSE FormEncodeRange(s, lo, (lo + hi) \div 2)
       \o FormEncodeRange(s, ((lo + hi) \div 2) + 1, hi)

\* The application/x-www-form-urlencoded serialisation of a text: a space
\* becomes "+", all but A-Z a-z 0-9 * - . _ becomes %XX.
FormEncodeText(s) == FormEncodeRange(s, 1, Len(s))

RECURSIVE FormEncode(_)
\* The body of a form post: the fields (<<key, value>> pairs) that are
\* filled, as key=value joined by "&".
FormEncode(fields) ==
  IF fields = <<>> THEN <<>>
  ELSE LET f == Head(fields)
           rest == FormEncode(Tail(fields))
       IN IF f[2].t # "string" THEN rest
          ELSE FormEncodeText(f[1]) \o <<61>> \o FormEncodeText(f[2].s)
               \o (IF rest = <<>> THEN <<>> ELSE <<38>> \o rest)

(***************************************************************************)
(* Form bodies on the server: URLSearchParams (line 155)                   *)
(***************************************************************************)

\* The text as a USVString: U+FFFD for each lone surrogate.
ToWellFormed(s) == [i \in 1..Len(s) |-> IF IsLone(s, i) THEN 65533 ELSE s[i]]

RECURSIVE unescapeRange(_, _, _)
\* querystring.unescapeBuffer on s[lo..hi]: %XX is its byte, any other
\* character the low byte of its code.
unescapeRange(s, lo, hi) ==
  IF lo > hi THEN <<>>
  ELSE IF lo = hi THEN
    (IF InEscape(s, lo) THEN <<>>
     ELSE IF PctByte(s, lo) >= 0 THEN <<PctByte(s, lo)>>
     ELSE <<s[lo] % 256>>)
  ELSE unescapeRange(s, lo, (lo + hi) \div 2)
       \o unescapeRange(s, ((lo + hi) \div 2) + 1, hi)

unescapeBuffer(s) == unescapeRange(s, 1, Len(s))

\* The text, or the UTF-8 reading of its unescaped bytes when decoding
\* threw.
UnescapedOr(dec, s) == IF dec.t = "throw" THEN Utf8Decode(unescapeBuffer(s)) ELSE dec.s

\* querystring.unescape: decodeURIComponent, and the bytes of
\* unescapeBuffer read as UTF-8 when that throws.
unescape(s) == UnescapedOr(decodeURIComponent(JStr(s)), s)

\* The part without its "+".
NoPlus(part) == SelectSeq(part, LAMBDA c : c # 43)

\* Each "+" of the part as a space.
PlusToSpace(part) == [i \in 1..Len(part) |-> IF part[i] = 43 THEN 32 ELSE part[i]]

\* A name or value of parseParams: "+" is a space, and the text goes
\* through querystring.unescape once a "%" with two hex digits was seen
\* (the "+" between them not counted).
ParamText(part) ==
  IF \E i \in 1..Len(NoPlus(part)) : PctByte(NoPlus(part), i) >= 0
  THEN unescape(PlusToSpace(part))
  ELSE PlusToSpace(part)

\* A piece with "=" at eq (0: none) split into its name and its value.
ParamPair(piece, eq) ==
  IF eq = 0 THEN <<piece, <<>> >>
  ELSE <<SubSeq(piece, 1, eq - 1), SubSeq(piece, eq + 1, Len(piece))>>

\* The name and the value of parseParams for a split piece.
ParamTexts(pair) == [i \in 1..2 |-> ParamText(pair[i])]

\* result[k] = v (line 157) for the name and value of a pair.
searchParamsSet(result, pair) == SetMember(result, pair[1], JStr(pair[2]))

\* result[k] = v (line 157) for the pair of one piece between "&": none for
\* an empty piece, else the piece split at its first "=".
searchParamsEach(result, piece) ==
  IF piece = <<>> THEN result
  ELSE searchParamsSet(result, ParamTexts(ParamPair(piece, IndexOf(piece, 61))))

RECURSIVE searchParamsFrom(_, _, _, _)
\* The pairs of new URLSearchParams(body), then result[k] = v for each of
\* them in order (lines 155-157), over the pieces lo to hi, the members so
\* far evaluated at each step.
searchParamsFrom(pieces, lo, hi, result) ==
  IF Len(result) >= 0 /\ lo > hi THEN result
  ELSE IF lo = hi THEN searchParamsEach(result, pieces[lo])
  ELSE searchParamsFrom(pieces, ((lo + hi) \div 2) + 1, hi,
         searchParamsFrom(pieces, lo, (lo + hi) \div 2, result))

\* The object of lines 155-157 for the pieces between "&".
searchParamsOver(pieces) == JObj(searchParamsFrom(pieces, 1, Len(pieces), <<>>))

\* The object of lines 155-157 for the text given to URLSearchParams.
searchParams(init) == searchParamsOver(Split(init, 38))

\* The text without a "?" at its start.
NoQuestionMark(s) == IF s # <<>> /\ s[1] = 63 THEN Tail(s) ELSE s

\* The object parseBody hands to its callback once the body has arrived.
parseBody(body) == searchParams(NoQuestionMark(ToWellFormed(body)))

(***************************************************************************)
(* Form bodies on the server: express.urlencoded({ extended: true })       *)
(* (line 173), which is body-parser over qs.parse with allowPrototypes,    *)
(* a depth of 32 that is enforced, at most 1000 parameters and an array    *)
(* limit of 100 or the number of "&", for a request whose Content-Type is  *)
(* application/x-www-form-urlencoded in UTF-8.                             *)
(***************************************************************************)

QsDepth == 32
QsParameterLimit == 1000
QsArrayLimit == 100

\* An error with the status the response is to carry.
HttpError(status) == [t |-> "throw", s |-> NatText(status), m |-> <<>>]

\* The body as body-parser decodes it: UTF-8 without a byte order mark.
QsBody(w) == IF w # <<>> /\ w[1] = 65279 THEN Tail(w) ELSE w

RECURSIVE QsCleanRange(_, _, _)
\* cleanStr of parseValues on s[lo..hi]: %5B and %5D, in either case, are
\* the brackets.
QsCleanRange(s, lo, hi) ==
  IF lo > hi THEN <<>>
  ELSE IF lo = hi THEN
    (IF PctByte(s, lo) \in {91, 93} THEN <<PctByte(s, lo)>>
     ELSE IF PctByte(s, lo - 1) \in {91, 93} \/ PctByte(s, lo - 2) \in {91, 93} THEN <<>>
     ELSE <<s[lo]>>)
  ELSE QsCleanRange(s, lo, (lo + hi) \div 2)
       \o QsCleanRange(s, ((lo + hi) \div 2) + 1, hi)

QsClean(s) == QsCleanRange(s, 1, Len(s))

\* qs's decoder: "+" to space, then decodeURIComponent, the text as it is
\* when that throws (a text without "%" decodes to itself).
QsDecode(s) == TryDecode(PlusToSpace(s)).s

\* pos of parseValues: the "=" of the first "]=", else the first "=", 0
\* when there is none.
QsPos(part) ==
  IF \E i \in 1..(Len(part) - 1) : part[i] = 93 /\ part[i + 1] = 61
  THEN Min({i \in 1..(Len(part) - 1) : part[i] = 93 /\ part[i + 1] = 61}) + 1
  ELSE IndexOf(part, 61)

\* utils.combine: [].concat(a, b).
QsCombine(a, b) ==
  JArr((IF a.t = "array" THEN Elements(a) ELSE <<a>>)
       \o (IF b.t = "array" THEN Elements(b) ELSE <<b>>))

\* obj[key] = val of parseValues, on an object without prototype: a key
\* given again collects its values in an array.
QsCollect(pairs, key, val) ==
  IF \E i \in 1..Len(pairs) : pairs[i][1] = key
  THEN DefineMember(pairs, key,
         QsCombine(pairs[CHOOSE i \in 1..Len(pairs) : pairs[i][1] = key][2], val))
  ELSE DefineMember(pairs, key, val)

\* The key and the value of a split part, decoded.
QsDecoded(pair) == [i \in 1..2 |-> QsDecode(pair[i])]

\* obj[key] = val of parseValues for a decoded key and value.
parseValuesSet(obj, pair) == QsCollect(obj, pair[1], JStr(pair[2]))

\* One part of parseValues: its decoded key and value, the value empty
\* for a part without "=".
parseValuesEach(obj, part) == parseValuesSet(obj, QsDecoded(ParamPair(part, QsPos(part))))

RECURSIVE parseValues(_, _, _, _)
\* parseValues over the "&" parts lo to hi, the members so far evaluated
\* at each step.
parseValues(parts, lo, hi, obj) ==
  IF Len(obj) >= 0 /\ lo > hi THEN obj
  ELSE IF lo = hi THEN parseValuesEach(obj, parts[lo])
  ELSE parseValues(parts, ((lo + hi) \div 2) + 1, hi,
         parseValues(parts, lo, (lo + hi) \div 2, obj))

\* A match of /(\[[^[\]]*])/ starts at index i of key: its end, else 0.
SegmentEnd(key, i) ==
  IF key[i] # 91 \/ {j \in (i + 1)..Len(key) : key[j] \in {91, 93}} = {} THEN 0
  ELSE IF key[Min({j \in (i + 1)..Len(key) : key[j] \in {91, 93}})] # 93 THEN 0
  ELSE Min({j \in (i + 1)..Len(key) : key[j] \in {91, 93}})

\* The starts of the bracket segments of key.
SegmentStarts(key) == {i \in 1..Len(key) : SegmentEnd(key, i) > 0}

\* The k-th element of a set of numbers in ascending order.
Nth(S, k) == CHOOSE x \in S : Cardinality({y \in S : y < x}) = k - 1

\* keys of parseKeys for the starts of the segments: the parent before
\* the first segment when it is not empty, then the segments.
QsChainOf(key, starts) ==
  (IF starts = {} THEN <<key>>
   ELSE IF Min(starts) = 1 THEN <<>>
   ELSE <<SubSeq(key, 1, Min(starts) - 1)>>)
  \o [k \in 1..Cardinality(starts) |->
        SubSeq(key, Nth(starts, k), SegmentEnd(key, Nth(starts, k)))]

QsChain(key) == QsChainOf(key, SegmentStarts(key))

\* cleanRoot of parseObject: a segment without its brackets.
CleanRoot(root) ==
  IF root # <<>> /\ root[1] = 91 /\ root[Len(root)] = 93
  THEN SubSeq(root, 2, Len(root) - 1) ELSE root

\* The text is that of an array index up to the limit.
QsIsIndex(txt, arrayLimit) ==
  /\ IsIndex(txt) /\ Len(txt) <= 4
  /\ DigitsValue([i \in 1..Len(txt) |-> txt[i] - 48]) <= arrayLimit

\* An array with leaf at index n (from 0) and holes before it.
ArrayAt(n, leaf) == JArr([k \in 1..(n + 1) |-> IF k = n + 1 THEN leaf ELSE JUndefined])

\* One step of parseObject for a root that is not []: the value that holds
\* leaf under the root, whose text without brackets is clean.
QsLinkClean(root, clean, leaf, arrayLimit) ==
  IF root # clean /\ QsIsIndex(clean, arrayLimit)
  THEN ArrayAt(DigitsValue([i \in 1..Len(clean) |-> clean[i] - 48]), leaf)
  ELSE IF clean = Str(<<"_", "_", "p", "r", "o", "t", "o", "_", "_">>) THEN JObj(<<>>)
  ELSE JObj(<< <<clean, leaf>> >>)

\* One step of parseObject: the value that holds leaf under root.
QsLink(root, leaf, arrayLimit) ==
  IF root = <<91, 93>> THEN (IF leaf.t = "array" THEN leaf ELSE JArr(<<leaf>>))
  ELSE QsLinkClean(root, CleanRoot(root), leaf, arrayLimit)

RECURSIVE parseObject(_, _, _, _)
\* parseObject: the chain from its last key back to its first i keys.
parseObject(chain, i, leaf, arrayLimit) ==
  IF i = 0 THEN leaf
  ELSE parseObject(chain, i - 1, QsLink(chain[i], leaf, arrayLimit), arrayLimit)

\* parseObject over the whole chain.
parseChain(chain, val, arrayLimit) == parseObject(chain, Len(chain), val, arrayLimit)

\* parseKeys: nothing for the empty key, a RangeError beyond the depth.
parseKeys(givenKey, val, arrayLimit) ==
  IF givenKey = <<>> THEN JUndefined
  ELSE IF Cardinality(SegmentStarts(givenKey)) > QsDepth THEN HttpError(400)
  ELSE parseChain(QsChain(givenKey), val, arrayLimit)

\* The elements with v at index i, holes up to it.
ArraySet(elems, i, v) ==
  [k \in 1..Max({Len(elems), i}) |->
     IF k = i THEN v ELSE IF k <= Len(elems) THEN elems[k] ELSE JUndefined]

\* Object.keys of a value with their values: the members of an object, the
\* elements of an array that are no holes under their indices.
KeyedValues(v) ==
  IF v.t = "object" THEN v.m
  ELSE SelectSeq([i \in 1..Len(v.m) |-> <<NatText(i - 1), v.m[i][2]>>],
                 LAMBDA p : p[2].t # "undefined")

RECURSIVE QsMerge(_, _)
RECURSIVE QsMergeItems(_, _, _)
RECURSIVE QsMergeKeys(_, _, _)

\* The forEach of utils.merge for two arrays, from item i on.
QsMergeItems(target, items, i) ==
  IF i > Len(items) THEN target
  ELSE IF items[i].t = "undefined" THEN QsMergeItems(target, items, i + 1)
  ELSE IF i > Len(target) \/ target[i].t = "undefined"
    THEN QsMergeItems(ArraySet(target, i, items[i]), items, i + 1)
  ELSE IF target[i].t \in {"object", "array"} /\ items[i].t \in {"object", "array"}
    THEN QsMergeItems([target EXCEPT ![i] = QsMerge(target[i], items[i])], items, i + 1)
  ELSE QsMergeItems(Append(target, items[i]), items, i + 1)

\* The reduce of utils.merge over the keys of the source, from key i on.
QsMergeKeys(acc, pairs, i) ==
  IF i > Len(pairs) THEN acc
  ELSE IF \E k \in 1..Len(acc) : acc[k][1] = pairs[i][1]
    THEN QsMergeKeys(
           DefineMember(acc, pairs[i][1],
             QsMerge(acc[CHOOSE k \in 1..Len(acc) : acc[k][1] = pairs[i][1]][2], pairs[i][2])),
           pairs, i + 1)
  ELSE QsMergeKeys(SetMember(acc, pairs[i][1], pairs[i][2]), pairs, i + 1)

\* utils.merge(target, source) under allowPrototypes.
QsMerge(target, source) ==
  IF ~Truthy(source) THEN target
  ELSE IF source.t \notin {"object", "array"}
    THEN (IF target.t = "array" THEN JArr(Append(Elements(target), source))
          ELSE IF target.t = "object"
            THEN JObj(SetMember(target.m, source.s, JBool(TRUE)))
          ELSE JArr(<<target, source>>))
  ELSE IF target.t \notin {"object", "array"}
    THEN JArr(<<target>> \o (IF source.t = "array" THEN Elements(source) ELSE <<source>>))
  ELSE IF target.t = "array" /\ source.t = "array"
    THEN JArr(QsMergeItems(Elements(target), Elements(source), 1))
  ELSE JObj(QsMergeKeys(KeyedValues(target), KeyedValues(source), 1))

RECURSIVE compact(_)

\* The elements that are no holes.
NoHoles(elems) == SelectSeq(elems, LAMBDA e : e.t # "undefined")

\* Each of the elements compacted.
compactEach(elems) == [i \in 1..Len(elems) |-> compact(elems[i])]

\* utils.compact: the arrays of the value without their holes.
compact(v) ==
  IF v.t = "array" THEN JArr(compactEach(NoHoles(Elements(v))))
  ELSE IF v.t = "object"
  THEN JObj([i \in 1..Len(v.m) |-> <<v.m[i][1], compact(v.m[i][2])>>])
  ELSE v

\* One step of the loop of qs.parse: the object merged with what
\* parseKeys makes of a member of tempObj, or its RangeError.
qsParseEach(obj, made) == IF made.t = "throw" THEN made ELSE QsMerge(obj, made)

RECURSIVE qsParseFrom(_, _, _, _, _)
\* The loop of qs.parse over the members lo to hi of tempObj, which an
\* exception ends.
qsParseFrom(tempObj, lo, hi, obj, arrayLimit) ==
  IF obj.t = "throw" \/ lo > hi THEN obj
  ELSE IF lo = hi
    THEN qsParseEach(obj, parseKeys(tempObj[lo][1], tempObj[lo][2], arrayLimit))
  ELSE qsParseFrom(tempObj, ((lo + hi) \div 2) + 1, hi,
         qsParseFrom(tempObj, lo, (lo + hi) \div 2, obj, arrayLimit), arrayLimit)

\* The object of the loop compacted, or its RangeError.
CompactOr(r) == IF r.t = "throw" THEN r ELSE compact(r)

\* The loop of qs.parse over all of tempObj, and utils.compact.
qsParseOver(tempObj, arrayLimit) ==
  CompactOr(qsParseFrom(tempObj, 1, Len(tempObj), JObj(<<>>), arrayLimit))

\* parseValues over all the parts.
parseValuesOver(parts) == parseValues(parts, 1, Len(parts), <<>>)

\* qs.parse(str, options) on a text that is not empty.
qsParse(str, arrayLimit) ==
  qsParseOver(parseValuesOver(Split(QsClean(str), 38)), arrayLimit)

\* The number of "&" in the body.
parameterCount(body) == Len(Split(body, 38)) - 1

\* body-parser's extended parser on a body of paramCount "&".
queryparseCount(body, paramCount) ==
  IF paramCount >= QsParameterLimit THEN HttpError(413)
  ELSE qsParse(body, Max({QsArrayLimit, paramCount}))

\* body-parser's extended parser on the text of the body: {} for an empty
\* one, the status 413 from the parameter limit on.
queryparse(body) ==
  IF body = <<>> THEN JObj(<<>>) ELSE queryparseCount(body, parameterCount(body))

\* req.body as express.urlencoded leaves it, or the error it raises.
urlencoded(body) == queryparse(QsBody(ToWellFormed(body)))

(***************************************************************************)
(* The users file (lines 28-34, and again 177-183)                         *)
(*                                                                         *)
(* The file is held as the JSON value its text denotes: saveUsers writes   *)
(* JSON.stringify(users, null, 2), whose indentation is white space that   *)
(* JSON.parse skips, and a member whose value is undefined is not written. *)
(***************************************************************************)

\* users.json does not exist.
NoFile == [exists |-> FALSE, content |-> JNull]

\* A read that starts from an empty array whatever the file holds.
readEmpty(db) == JArr(<<>>)

\* readUsers(): [] when the file does not exist, else the parsed content.
readUsers(db) == IF ~db.exists THEN JArr(<<>>) ELSE db.content

\* A save that writes the last of the users only.
saveLast(users) ==
  [exists |-> TRUE,
   content |-> JsonParse(JsonStringify(
                 JArr([i \in 1..(IF users.m = <<>> THEN 0 ELSE 1) |-> users.m[Len(users.m)][2]])))]

\* saveUsers(users): the file now holds the text of users.
saveUsers(users) == [exists |-> TRUE, content |-> JsonParse(JsonStringify(users))]

\* The callbacks of find read u.email first: a TypeError for an element
\* that is null or undefined.
Raises(u) == u.t \in {"null", "undefined"}

\* users.find(pred): a TypeError when users is no array (no value that
\* JSON.parse gives but an array has a find that can be called); else the
\* first element that satisfies the callback, undefined when there is
\* none, and the exception of the callback when it throws before that.
Find(arr, Pred(_)) ==
  IF arr.t # "array" THEN Thrown
  ELSE LET stops == {i \in 1..Len(arr.m) : Raises(arr.m[i][2]) \/ Pred(arr.m[i][2])} IN
       IF stops = {} THEN JUndefined
       ELSE IF Raises(arr.m[Min(stops)][2]) THEN Thrown
       ELSE arr.m[Min(stops)][2]

\* users.push(v)
Push(arr, v) == [arr EXCEPT !.m = Append(@, << <<>>, v >>)]

KeyName == Str(<<"n", "a", "m", "e">>)
KeyEmail == Str(<<"e", "m", "a", "i", "l">>)
KeyPassword == Str(<<"p", "a", "s", "s", "w", "o", "r", "d">>)
KeySub == Str(<<"s", "u", "b">>)

RECURSIVE ToStringOf(_)
RECURSIVE JoinFrom(_, _)

\* The text of an element of join: none for null and undefined.
JoinText(v) == IF v.t \in {"null", "undefined"} THEN JStr(<<>>) ELSE ToStringOf(v)

\* The texts head and rest joined by sep, or the exception of either.
Joined(head, sep, rest) ==
  IF head.t = "throw" \/ rest.t = "throw" THEN Thrown ELSE JStr(head.s \o sep \o rest.s)

\* Array.prototype.join(",") over the elements from i on.
JoinFrom(elems, i) ==
  IF i > Len(elems) THEN JStr(<<>>)
  ELSE Joined(JoinText(elems[i]), IF i < Len(elems) THEN <<44>> ELSE <<>>,
              JoinFrom(elems, i + 1))

\* ToString of a value that JSON.parse or a body parser gives, as a
\* template literal applies it: an object says [object Object] unless it
\* has a toString member of its own, which cannot be called, and then no
\* primitive value.
ToStringOf(v) ==
  CASE v.t = "string" -> v
    [] v.t = "number" -> JStr(v.s)
    [] v.t = "null" -> JStr(Str(<<"n", "u", "l", "l">>))
    [] v.t = "undefined" -> JStr(Str(<<"u", "n", "d", "e", "f", "i", "n", "e", "d">>))
    [] v.t = "true" -> JStr(Str(<<"t", "r", "u", "e">>))
    [] v.t = "false" -> JStr(Str(<<"f", "a", "l", "s", "e">>))
    [] v.t = "array" -> JoinFrom(Elements(v), 1)
    [] v.t = "object" ->
         IF \E i \in 1..Len(v.m) : v.m[i][1] = Str(<<"t", "o", "S", "t", "r", "i", "n", "g">>)
         THEN Thrown
         ELSE JStr(Str(<<"[", "o", "b", "j", "e", "c", "t", " ", "O", "b", "j", "e", "c", "t", "]">>))
    [] OTHER -> Thrown

(***************************************************************************)
(* Responses                                                               *)
(*                                                                         *)
(* status, the Location header ("" when there is none), the Set-Cookie     *)
(* header (undefined when there is none) and the page: its kind and, for   *)
(* the profile page, the user.name and user.email it shows.                *)
(***************************************************************************)

Response(status, location, setCookie, page, name, email) ==
  [status |-> status, location |-> location, setCookie |-> setCookie,
   page |-> page, name |-> name, email |-> email]

\* res.writeHead(302, { Location }) / res.redirect(location)
Redirect(location) == Response(302, location, JUndefined, "none", JUndefined, JUndefined)

\* A redirect that also sets a cookie.
RedirectWithCookie(location, setCookie) ==
  Response(302, location, JStr(setCookie), "none", JUndefined, JUndefined)

\* A 200 page without user data: homePage(), registerPage().
Page(kind) == Response(200, "", JUndefined, kind, JUndefined, JUndefined)

\* The texts of the values, as a template literal makes them.
Texts(vals) == [i \in 1..Len(vals) |-> ToStringOf(vals[i])]

\* The profile page with the texts of the name and the email.
profileTexts(texts) == Response(200, "", JUndefined, "profile", texts[1], texts[2])

\* profilePage(user): the page with the texts of user.name and user.email.
profilePage(user) == profileTexts(Texts(Fields(user, <<KeyName, KeyEmail>>)))

\* res.writeHead(404); res.end("Not Found") / Express's final handler.
NotFound == Response(404, "", JUndefined, "notfound", JUndefined, JUndefined)

\* An exception leaves the handler: the http listener has no handler for
\* it and the request gets no response (status 0); Express answers 500.
Failure(variant) ==
  IF variant = "http"
  THEN Response(0, "", JUndefined, "uncaught", JUndefined, JUndefined)
  ELSE Response(500, "", JUndefined, "error", JUndefined, JUndefined)

\* Express's answer to an error of the body parser: its status.
Refusal(err) ==
  Response(DigitsValue([i \in 1..Len(err.s) |-> err.s[i] - 48]), "", JUndefined, "error",
           JUndefined, JUndefined)

\* What a handler leaves: the response and the users file.
Out(resp, db) == [resp |-> resp, db |-> db]

(***************************************************************************)
(* The routes                                                              *)
(***************************************************************************)

\* a[i] === b[i] for each i.
AllStrictEq(a, b) == \A i \in 1..Len(a) : StrictEq(a[i], b[i])

\* u => u.email === email
HasEmail(u, email) == StrictEq(GetProp(u, KeyEmail), email)

\* u => u.email === email || u.password === password
EitherCredential(u, email, password) ==
  StrictEq(GetProp(u, KeyEmail), email) \/ StrictEq(GetProp(u, KeyPassword), password)

\* u => u.email === email && u.password === password
HasCredentials(u, email, password) ==
  AllStrictEq(Fields(u, <<KeyEmail, KeyPassword>>), <<email, password>>)

\* res.end(profilePage(user)) / res.send(profilePage(user)): the page, or
\* the exception of a name or email that has no text.
Shown(variant, db, page) ==
  IF page.name.t = "throw" \/ page.email.t = "throw" THEN Out(Failure(variant), db)
  ELSE Out(page, db)

\* Lines 93-98 and 247-250: the page of the user that was found, a
\* redirect to / when none was.
profileOf(variant, db, user) ==
  IF user.t = "throw" THEN Out(Failure(variant), db)
  ELSE IF ~Truthy(user) THEN Out(Redirect("/"), db)
  ELSE Shown(variant, db, profilePage(user))

\* Lines 88-93 and 246-247: a falsy payload redirects to /, else the
\* users are read and the one whose email is payload.sub is looked up.
profileFor(variant, db, payload, users) ==
  IF ~Truthy(payload) THEN Out(Redirect("/"), db)
  ELSE IF users.t = "throw" THEN Out(Failure(variant), db)
  ELSE profileOf(variant, db, Find(users, LAMBDA u : HasEmail(u, GetProp(payload, KeySub))))

\* GET /profile, from the access_token cookie on (lines 86-98, 244-250):
\* payload = token && verifyToken(token).
profileRoute(variant, db, token) ==
  profileFor(variant, db, IF Truthy(token) THEN verifyToken(token) ELSE token,
             readUsers(db))

\* GET /profile, from the Cookie header on: parseCookies(req) in the http
\* variant (line 84), which may throw; req.cookies of the cookieParser
\* middleware in the Express variant.
profileFrom(variant, db, cookies) ==
  IF cookies.t = "throw" THEN Out(Failure(variant), db)
  ELSE profileRoute(variant, db, GetProp(cookies, AccessToken))

\* The GET /profile handler (lines 83-99, 243-251).
getProfile(variant, db, cookieHeader) ==
  profileFrom(variant, db,
    IF variant = "http" THEN parseCookies(cookieHeader) ELSE cookieParser(cookieHeader))

\* The register handler without its lookup of the email.
registerAlways(variant, db, users, name, email, password) ==
  IF users.t = "throw" \/ users.t # "array" THEN Out(Failure(variant), db)
  ELSE Out(RedirectWithCookie("/profile", SetTokenCookie(variant, createToken(Claim(email)))),
           saveUsers(Push(users, JObj(<< <<KeyName, name>>, <<KeyEmail, email>>,
                                         <<KeyPassword, password>> >>))))

\* Lines 108-112 and 257-261: the user pushed and saved, the cookie set.
registerNew(variant, db, users, name, email, password) ==
  Out(RedirectWithCookie("/profile", SetTokenCookie(variant, createToken(Claim(email)))),
      saveUsers(Push(users, JObj(<< <<KeyName, name>>, <<KeyEmail, email>>,
                                     <<KeyPassword, password>> >>))))

\* Lines 104-112 and 256-261, from the user found by users.find on.
registerFound(variant, db, users, found, name, email, password) ==
  IF found.t = "throw" THEN Out(Failure(variant), db)
  ELSE IF Truthy(found) THEN Out(Redirect("/register"), db)
  ELSE registerNew(variant, db, users, name, email, password)

\* Lines 103-112 and 256-261, the body destructured and the users read.
registerWith(variant, db, users, name, email, password) ==
  IF users.t = "throw" THEN Out(Failure(variant), db)
  ELSE registerFound(variant, db, users, Find(users, LAMBDA u : HasEmail(u, email)),
                     name, email, password)

\* const { name, email, password } = body, then the handler.
registerFields(variant, db, users, fields) ==
  registerWith(variant, db, users, fields[1], fields[2], fields[3])

\* POST /register, from the parsed body on (lines 102-112, 254-261).
registerRoute(variant, db, body) ==
  IF body.t = "throw" THEN Out(Refusal(body), db)
  ELSE registerFields(variant, db, readUsers(db),
                      Fields(body, <<KeyName, KeyEmail, KeyPassword>>))

\* The POST /register handler (lines 100-114, 253-262): the body parsed by
\* parseBody in the http variant, by express.urlencoded in the other.
postRegister(variant, db, body) ==
  registerRoute(variant, db, IF variant = "http" THEN parseBody(body) ELSE urlencoded(body))

\* Lines 120-126 and 268-271, from the user found by users.find on.
loginFound(variant, db, found, email) ==
  IF found.t = "throw" THEN Out(Failure(variant), db)
  ELSE IF ~Truthy(found) THEN Out(Redirect("/"), db)
  ELSE Out(RedirectWithCookie("/profile", SetTokenCookie(variant, createToken(Claim(email)))),
           db)

\* Lines 118-126 and 266-271, the body destructured and the users read.
loginWith(variant, db, users, email, password) ==
  IF users.t = "throw" THEN Out(Failure(variant), db)
  ELSE loginFound(variant, db, Find(users, LAMBDA u : HasCredentials(u, email, password)),
                  email)

\* const { email, password } = body, then the handler.
loginFields(variant, db, users, fields) == loginWith(variant, db, users, fields[1], fields[2])

\* POST /login, from the parsed body on (lines 117-126, 265-271).
loginRoute(variant, db, body) ==
  IF body.t = "throw" THEN Out(Refusal(body), db)
  ELSE loginFields(variant, db, readUsers(db), Fields(body, <<KeyEmail, KeyPassword>>))

\* The POST /login handler (lines 115-128, 264-272).
postLogin(variant, db, body) ==
  loginRoute(variant, db, IF variant = "http" THEN parseBody(body) ELSE urlencoded(body))

\* POST /logout (lines 129-132, 274-277).
logoutRoute(variant, db) ==
  Out(Response(302, "/", JStr(ClearTokenCookie(variant)), "none", JUndefined, JUndefined), db)

\* A request: method, url, the Cookie header (undefined when absent) and
\* the whole body.
Request(method, url, cookie, body) ==
  [method |-> method, url |-> url, cookie |-> cookie, body |-> body]

PathHome == Str(<<"/">>)
PathRegister == Str(<<"/", "r", "e", "g", "i", "s", "t", "e", "r">>)
PathProfile == Str(<<"/", "p", "r", "o", "f", "i", "l", "e">>)
PathLogin == Str(<<"/", "l", "o", "g", "i", "n">>)
PathLogout == Str(<<"/", "l", "o", "g", "o", "u", "t">>)
PathSettings == Str(<<"/", "s", "e", "t", "t", "i", "n", "g", "s">>)

\* The response to a HEAD request is sent without its body.
Headless(out, method) ==
  IF method = "HEAD"
  THEN [out EXCEPT !.resp.page = "none", !.resp.name = JUndefined, !.resp.email = JUndefined]
  ELSE out

\* The request listener (lines 74-137): the handler of the method and url,
\* 404 for anything else, HEAD among it.
Listener(db, r) ==
  IF r.method = "GET" /\ r.url = PathHome THEN Out(Page("home"), db)
  ELSE IF r.method = "GET" /\ r.url = PathRegister THEN Out(Page("register"), db)
  ELSE IF r.method = "GET" /\ r.url = PathProfile THEN getProfile("http", db, r.cookie)
  ELSE IF r.method = "POST" /\ r.url = PathRegister THEN postRegister("http", db, r.body)
  ELSE IF r.method = "POST" /\ r.url = PathLogin THEN postLogin("http", db, r.body)
  ELSE IF r.method = "POST" /\ r.url = PathLogout THEN logoutRoute("http", db)
  ELSE Headless(Out(NotFound, db), r.method)

\* The path of a url: what precedes its first "?".
Pathname(url) ==
  SubSeq(url, 1, IF IndexOf(url, 63) = 0 THEN Len(url) ELSE IndexOf(url, 63) - 1)

\* The letters A to Z of a text in lower case.
ToLower(s) == [i \in 1..Len(s) |-> IF s[i] >= 65 /\ s[i] <= 90 THEN s[i] + 32 ELSE s[i]]

\* Express's match of the path of a route with the path of a url in lower
\* case: the letters in either case, with or without a "/" at the end.
Matches(lowered, path) ==
  \/ lowered = path
  \/ lowered = path \o <<47>>
  \/ path = <<47>> /\ lowered = <<>>

\* Express's answer to OPTIONS on the path of a route: the methods allowed.
Options == Response(200, "", JUndefined, "options", JUndefined, JUndefined)

\* The routes of the Express application (lines 239-277) for a request
\* whose body is parsed and the path of its url in lower case: the first
\* route that matches the method and the path; a GET route answers HEAD
\* too, OPTIONS is answered for the path of any route, and anything else
\* is 404.
Routes(db, r, body, lowered) ==
  IF body.t = "throw" THEN Out(Refusal(body), db)
  ELSE IF r.method \in {"GET", "HEAD"} /\ Matches(lowered, PathHome)
    THEN Headless(Out(Page("home"), db), r.method)
  ELSE IF r.method \in {"GET", "HEAD"} /\ Matches(lowered, PathRegister)
    THEN Headless(Out(Page("register"), db), r.method)
  ELSE IF r.method \in {"GET", "HEAD"} /\ Matches(lowered, PathProfile)
    THEN Headless(getProfile("express", db, r.cookie), r.method)
  ELSE IF r.method = "POST" /\ Matches(lowered, PathRegister)
    THEN registerRoute("express", db, body)
  ELSE IF r.method = "POST" /\ Matches(lowered, PathLogin) THEN loginRoute("express", db, body)
  ELSE IF r.method = "POST" /\ Matches(lowered, PathLogout) THEN logoutRoute("express", db)
  ELSE IF r.method = "OPTIONS"
          /\ \E path \in {PathHome, PathRegister, PathProfile, PathLogin, PathLogout} :
                Matches(lowered, path)
    THEN Out(Options, db)
  ELSE Headless(Out(NotFound, db), r.method)

\* The router of the Express application.
Router(db, r, body) == Routes(db, r, body, ToLower(Pathname(r.url)))

\* The Express application (lines 173-174 and 239-277): the body parser,
\* whose error ends the request, then the routes.
Application(db, r) == Router(db, r, urlencoded(r.body))

\* The program that runs answers the request.
Serve(variant, db, r) == IF variant = "http" THEN Listener(db, r) ELSE Application(db, r)

(***************************************************************************)
(* The state                                                               *)
(***************************************************************************)

VARIABLES
  mode,       \* the variant that runs: "http" or "express"
  file,       \* users.json
  cookieJar,  \* the client's access_token cookie (undefined: none)
  request,    \* the last request served
  response,   \* its response
  issued,     \* the cookie values the server has set so far
  origin,     \* where the token handed to verifyToken comes from
  claimed,    \* the claim a token was issued for
  presented,  \* the token handed to verifyToken
  verdict,    \* what verifyToken returned for it
  inflight,   \* the requests in flight, by connection
  twin,       \* the Express variant run beside the http one: its users
              \* file, its client's cookie and its last response
  alive,      \* the process runs: no exception has ended it
  pending     \* the bag of the POST requests that reached the server and
              \* wait for the "end" event of their body

vars ==
  <<mode, file, cookieJar, request, response, issued, origin, claimed, presented, verdict,
    inflight, twin, alive, pending>>

serverVars == <<mode, file, cookieJar, request, response, issued, twin, alive, pending>>
codecVars == <<origin, claimed, presented, verdict>>

\* The most users the store is let to grow to.
MaxUsers == 2

\* The most POST requests that wait for the end of their body at a time.
MaxPending == 2

Variants == {"http", "express"}

\* What the clients send as the register form, as <<name, email,
\* password>>: a first user, the same email under another name and
\* password, the email in another letter case, a form sent with an empty
\* name and without its email field, and a form whose email field is
\* named email[] (an array stands for it), which the body parser of the
\* Express variant reads as an array.
RegisterFills ==
  {<<JStr(Str(<<"n">>)), JStr(Str(<<"a">>)), JStr(Str(<<"p">>))>>,
   <<JStr(Str(<<"m">>)), JStr(Str(<<"a">>)), JStr(Str(<<"q">>))>>,
   <<JStr(Str(<<"n">>)), JStr(Str(<<"A">>)), JStr(Str(<<"p">>))>>,
   <<JStr(<<>>), JUndefined, JStr(Str(<<"p">>))>>,
   <<JStr(Str(<<"n">>)), JArr(<<JStr(Str(<<"a">>))>>), JStr(Str(<<"p">>))>>}

\* The fills whose email is a text or is not sent.
TypedFills == {f \in RegisterFills : f[2].t # "array"}

\* The fields of a fill as the body parser of the variant reads them:
\* URLSearchParams keeps email[] as a name of its own, so that the http
\* variant finds no email; qs makes the email an array.
FieldsRead(variant, f) ==
  IF variant = "http" /\ f[2].t = "array" THEN <<f[1], JUndefined, f[3]>> ELSE f

\* What they type into the login form; undefined is a field not sent.
Emails == {JStr(Str(<<"a">>)), JStr(Str(<<"A">>)), JUndefined}
Passwords == {JStr(Str(<<"p">>)), JStr(Str(<<"q">>))}

\* The login forms that are posted, as <<email, password>>: the email and
\* the password of the first user, that email with another password, the
\* email in another letter case, and a form without its email field.
LoginFills ==
  {<<JStr(Str(<<"a">>)), JStr(Str(<<"p">>))>>,
   <<JStr(Str(<<"a">>)), JStr(Str(<<"q">>))>>,
   <<JStr(Str(<<"A">>)), JStr(Str(<<"p">>))>>,
   <<JUndefined, JStr(Str(<<"p">>))>>}

\* The subjects of the tokens that a register or login can issue.
TokenEmails == Emails \cup {f[2] : f \in RegisterFills}

\* base64 text without its "=" padding.
Unpadded(b) == SubSeq(b, 1, IF IndexOf(b, 61) = 0 THEN Len(b) ELSE IndexOf(b, 61) - 1)

\* A token minted by a client for a payload of its choice: the header {},
\* no padding and no third segment, a text createToken never produces.
MintToken(payload) ==
  Str(<<"e", "3", "0", ".">>) \o Unpadded(EncodeSegment(payload))

\* Cookie headers written by hand rather than from the jar: a minted token
\* for an email, a token of one segment, payloads that are no JSON or no
\* claim, and a value that decodeURIComponent refuses.
CraftedCookies ==
  {JStr(AccessToken \o <<61>> \o t) :
     t \in {MintToken(Claim(JStr(Str(<<"a">>)))),
            Str(<<"z", "z", "z">>),
            Str(<<"e", "3", "0", ".", "z", "z", "z">>),
            MintToken(JNum(Str(<<"1">>))),
            Str(<<"%">>)}}

\* The email field of the register form: email=..., or email[]=... when
\* an array stands for it.
EmailField(email) ==
  IF email.t = "array" THEN <<KeyEmail \o Str(<<"[", "]">>), Elements(email)[1]>>
  ELSE <<KeyEmail, email>>

\* The body of the register form.
RegisterForm(name, email, password) ==
  FormEncode(<< <<KeyName, name>>, EmailField(email), <<KeyPassword, password>> >>)

\* The body of the login form.
LoginForm(email, password) ==
  FormEncode(<< <<KeyEmail, email>>, <<KeyPassword, password>> >>)

\* The record that saveUsers writes for a form filled with f: the fields
\* that were sent, in the order name, email, password.
RecordOf(f) ==
  JObj(SelectSeq(<< <<KeyName, f[1]>>, <<KeyEmail, f[2]>>, <<KeyPassword, f[3]>> >>,
                 LAMBDA kv : kv[2].t # "undefined"))

\* The bodies of the forms, by what was typed.
RegisterBody == [f \in RegisterFills |-> RegisterForm(f[1], f[2], f[3])]
LoginBody == [q \in Emails \X Passwords |-> LoginForm(q[1], q[2])]

\* The records that the variant writes for the fills.
Records(variant) == {RecordOf(FieldsRead(variant, f)) : f \in RegisterFills}

RECURSIVE StoresUpTo(_, _)
\* The sequences of at most n of the records.
StoresUpTo(n, records) ==
  IF n = 0 THEN {<<>>}
  ELSE StoresUpTo(n - 1, records) \cup
       {Append(us, u) : us \in StoresUpTo(n - 1, records), u \in records}

\* The users files of the variant with at most MaxUsers records, none with
\* an email that the lookup of POST /register finds in another.
Files(variant) ==
  {NoFile} \cup
  {[exists |-> TRUE, content |-> JArr(us)] :
     us \in {vs \in StoresUpTo(MaxUsers, Records(variant)) :
               \A a, b \in 1..Len(vs) :
                 a # b => ~HasEmail(vs[a], GetProp(vs[b], KeyEmail))}}

\* Each variant with each of its users files.
Stores == UNION {{<<v, db>> : db \in Files(v)} : v \in Variants}

\* The jars a client of the variant can hold: none, or the cookie of a
\* register or login.
Jars ==
  {JUndefined} \cup
  {ClientStore(JUndefined, JStr(SetTokenCookie(v, createToken(Claim(e))))) :
     v \in Variants, e \in TokenEmails}

\* T[q] when the table T has q, else the value computed for it.
Lookup(T, q, computed) == IF q \in DOMAIN T THEN T[q] ELSE computed

\* The handlers are functions of the variant, the users file and the
\* Cookie header or body of the request.  These tables hold them over the
\* files, headers and bodies of the model, so that each is computed once
\* (@@ makes the function an explicit table).
ProfileTable ==
  [q \in {<<vf[1], vf[2], c>> :
            vf \in Stores, c \in {ClientCookie(j) : j \in Jars} \cup CraftedCookies}
     |-> getProfile(q[1], q[2], q[3])] @@ <<>>
RegisterTable ==
  [q \in {<<vf[1], vf[2], RegisterBody[f]>> : vf \in Stores, f \in RegisterFills}
     |-> postRegister(q[1], q[2], q[3])] @@ <<>>
LoginTable ==
  [q \in {<<vf[1], vf[2], LoginBody[k]>> : vf \in Stores, k \in LoginFills}
     |-> postLogin(q[1], q[2], q[3])] @@ <<>>

\* The Set-Cookie headers of the responses: none, the token of a register
\* or login, the cleared cookie of a logout.
SetCookies ==
  {JUndefined}
  \cup {JStr(SetTokenCookie(v, createToken(Claim(e)))) : v \in Variants, e \in TokenEmails}
  \cup {JStr(ClearTokenCookie(v)) : v \in Variants}

\* What a client without a cookie holds after each of these headers.
StoreTable == [c \in SetCookies |-> ClientStore(JUndefined, c)] @@ <<>>

\* verifyToken has not run.
NotRun == [t |-> "none", s |-> <<>>, m |-> <<>>]

\* No token is under test.
CodecIdle ==
  origin = "idle" /\ claimed = JUndefined /\ presented = JUndefined /\ verdict = NotRun

NoRequest == Request("", <<>>, JUndefined, <<>>)
NoResponse == Response(0, "", JUndefined, "", JUndefined, JUndefined)

\* No second server runs.
NoTwin == [file |-> NoFile, cookieJar |-> JUndefined, response |-> NoResponse]

Init ==
  /\ mode \in Variants
  /\ file \in {NoFile, saveUsers(JArr(<<>>))}
  /\ cookieJar = JUndefined
  /\ request = NoRequest
  /\ response = NoResponse
  /\ issued = {}
  /\ CodecIdle
  /\ inflight = <<>>
  /\ twin = NoTwin
  /\ alive = TRUE
  /\ pending = EmptyBag

\* An exception that leaves a listener of the http variant is caught by
\* nothing: node prints it and the process exits.  Express catches the
\* exception of a handler and answers 500.
Exits(resp) == resp = Failure("http")

\* The exchange of request r and the handler's out, the client keeping set
\* from the Set-Cookie header of the response, if it has one; rest are the
\* requests that still wait.  The process ends with an uncaught exception.
Settle(r, out, set, rest) ==
  /\ request' = r
  /\ response' = out.resp
  /\ file' = out.db
  /\ cookieJar' = IF out.resp.setCookie.t = "string" THEN set ELSE cookieJar
  /\ issued' = IF set.t = "string" THEN issued \cup {set.s} ELSE issued
  /\ alive' = ~Exits(out.resp)
  /\ pending' = rest
  /\ UNCHANGED <<mode, codecVars, inflight, twin>>

\* The server answers request r with out and the client stores the cookie
\* of the response.
Reply(r, out, rest) ==
  \E set \in {StoreTable[out.resp.setCookie]} : Settle(r, out, set, rest)

\* A POST with a body reaches the server: parseBody (lines 151-159) or the
\* body parser (line 173) registers its "data" and "end" callbacks and
\* returns to the event loop, with nothing read or written yet.  Each
\* request waits on its own, another with the same body beside it.
Receive(r) ==
  /\ alive
  /\ BagCardinality(pending) < MaxPending
  /\ pending' = pending (+) SetToBag({r})
  /\ UNCHANGED <<mode, file, cookieJar, request, response, issued, codecVars, inflight,
                 twin, alive>>

GetHome ==
  /\ alive
  /\ \E c \in {ClientCookie(cookieJar)} :
       Reply(Request("GET", PathHome, c, <<>>), Out(Page("home"), file), pending)

GetRegister ==
  /\ alive
  /\ \E c \in {ClientCookie(cookieJar)} :
       Reply(Request("GET", PathRegister, c, <<>>), Out(Page("register"), file), pending)

\* GET /profile with the cookie of the jar, with a crafted one, or with a
\* cookie the server set earlier and the client kept a copy of.
GetProfile ==
  /\ alive
  /\ \E c \in {ClientCookie(cookieJar)} \cup CraftedCookies
               \cup {ClientCookie(JStr(v)) : v \in issued} :
       Reply(Request("GET", PathProfile, c, <<>>),
             ProfileTable[<<mode, file, c>>], pending)

\* POST /register reaches the server (lines 100-101, 173).  The forms are
\* posted without a Cookie header, which their handlers do not read.
ReceiveRegister ==
  \E q \in {<<RegisterBody[f], pending>> : f \in RegisterFills} :
    Receive(Request("POST", PathRegister, JUndefined, q[1]))

\* POST /login reaches the server (lines 115-116, 173).
ReceiveLogin ==
  \E q \in {<<LoginBody[k], pending>> : k \in LoginFills} :
    Receive(Request("POST", PathLogin, JUndefined, q[1]))

\* The "end" event of a POST /register that waits: its body is parsed and
\* the handler runs on the users file as it is now (lines 102-112,
\* 254-261); the store grows to MaxUsers records at most.
PostRegister ==
  /\ alive
  /\ \E r \in {p \in BagToSet(pending) : p.url = PathRegister} :
       \E out \in {RegisterTable[<<mode, file, r.body>>]} :
         /\ Len(readUsers(out.db).m) <= MaxUsers
         /\ Reply(r, out, pending (-) SetToBag({r}))

\* The "end" event of a POST /login that waits (lines 117-126, 265-271).
PostLogin ==
  /\ alive
  /\ \E r \in {p \in BagToSet(pending) : p.url = PathLogin} :
       Reply(r, LoginTable[<<mode, file, r.body>>], pending (-) SetToBag({r}))

PostLogout ==
  /\ alive
  /\ \E c \in {ClientCookie(cookieJar)} :
       Reply(Request("POST", PathLogout, c, <<>>), logoutRoute(mode, file), pending)

\* Any other method or path (lines 133-136, Express's final handler).
Other ==
  /\ alive
  /\ \E c \in {ClientCookie(cookieJar)} :
       Reply(Request("GET", PathSettings, c, <<>>), Out(NotFound, file), pending)

Next ==
  \/ GetHome
  \/ GetRegister
  \/ GetProfile
  \/ ReceiveRegister
  \/ ReceiveLogin
  \/ PostRegister
  \/ PostLogin
  \/ PostLogout
  \/ Other

Spec == Init /\ [][Next]_vars

(***************************************************************************)
(* The server's contract                                                   *)
(***************************************************************************)

\* The records of the store.
Users(db) == {readUsers(db).m[i][2] : i \in 1..Len(readUsers(db).m)}

\* The places of the store whose record has the email.
Entries(db, email) ==
  {i \in 1..Len(readUsers(db).m) : HasEmail(readUsers(db).m[i][2], email)}

\* The places of the store whose record has this very value as its email.
Holders(db, email) ==
  {i \in 1..Len(readUsers(db).m) : GetProp(readUsers(db).m[i][2], KeyEmail) = email}

\* The record has the three fields as typed.
IsRecord(u, f) ==
  /\ GetProp(u, KeyName) = f[1]
  /\ GetProp(u, KeyEmail) = f[2]
  /\ GetProp(u, KeyPassword) = f[3]

\* The last request is the register form filled with f.
IsRegister(r, f) ==
  r.method = "POST" /\ r.url = PathRegister /\ r.body = RegisterBody[f]

\* The last request is the login form filled with email and password.
IsLogin(r, email, password) ==
  r.method = "POST" /\ r.url = PathLogin /\ r.body = LoginBody[<<email, password>>]

\* The step answers a request: it is not the arrival of one that waits.
Responds == BagCardinality(pending') <= BagCardinality(pending)

\* The normalized email: without surrounding whitespace, in lower case.
Normalized(email) ==
  IF email.t = "string" THEN JStr(ToLower(Trim(email.s))) ELSE email

CreateStep(f, fields) ==
  (Responds /\ IsRegister(request', f)) =>
    IF Holders(file, fields[2]) = {}
    THEN /\ response'.location = "/profile"
         /\ IsRecord(Find(readUsers(file'), LAMBDA u : HasEmail(u, fields[2])), fields)
    ELSE /\ response'.location = "/register"
         /\ file' = file
         /\ Cardinality(Holders(file', fields[2])) = 1

\* C4: a register with an email that is not in the store succeeds and a
\* lookup by that email then returns the record as submitted; a register
\* with an email of the store redirects to /register and leaves the store
\* as it was, with one entry for the email.
CreateThenFind == [][\A f \in RegisterFills : CreateStep(f, FieldsRead(mode, f))]_vars

\* One step of C6: the GET /profile that follows the login of email and
\* password with the cookie of its response.
LoginStep(email, password) ==
  (/\ IsLogin(request, email, password)
   /\ \E u \in Users(file) : HasCredentials(u, email, password)
   /\ request'.method = "GET" /\ request'.url = PathProfile
   /\ request'.cookie = ClientCookie(cookieJar))
  => /\ response.location = "/profile"
     /\ response.setCookie.t = "string"
     /\ response'.page = "profile"
     /\ response'.email = email

\* C6: the login of a registered email with its password redirects to
\* /profile and sets a cookie with which the next GET /profile shows the
\* profile of that email.
LoginOpensProfile ==
  [][\A e \in Emails \ {JUndefined}, p \in Passwords : LoginStep(e, p)]_vars

\* One step of C7, the login form filled with email and password.
FailedLoginStep(email, password) ==
  (/\ Responds
   /\ IsLogin(request', email, password)
   /\ \/ Entries(file, email) = {}
      \/ \E u \in Users(file) :
           HasEmail(u, email) /\ GetProp(u, KeyPassword) # password)
  => /\ response'.status = 302
     /\ response'.location = "/"
     /\ response'.setCookie = JUndefined
     /\ file' = file
     /\ cookieJar' = cookieJar

\* C7: a login with an email that is not in the store, or with a password
\* other than the stored one, redirects to / and sets no cookie; the store
\* and the cookie of the client stay as they were.
FailedLoginRefused ==
  [][\A e \in Emails, p \in Passwords : FailedLoginStep(e, p)]_vars

\* A client that holds a cookie sent the email of a record with another
\* password and was sent to /.
WrongPasswordRefused ==
  /\ cookieJar # JUndefined
  /\ response.location = "/"
  /\ \E e \in Emails, p \in Passwords :
       /\ IsLogin(request, e, p)
       /\ \E u \in Users(file) : HasEmail(u, e) /\ GetProp(u, KeyPassword) # p

\* C8: GET /profile without a cookie, or with a cookie that the client
\* wrote by hand, redirects to / and shows no profile.
ForgedCookieRefused ==
  (/\ request.method = "GET" /\ request.url = PathProfile
   /\ request.cookie \in {JUndefined} \cup CraftedCookies)
  => response.status = 302 /\ response.location = "/"

\* C11: every request ends in a response of status 200, 302 or 404; no
\* exception leaves a handler and ends the process.
EveryRequestAnswered ==
  /\ alive
  /\ request # NoRequest => response.status \in {200, 302, 404}

\* One step of C12: a logout is answered with a redirect to / and leaves
\* the client without the cookie; a client without the cookie is sent to /
\* by GET /profile, and comes to hold the cookie again by nothing but a
\* register or login that redirects to /profile.
LogoutStep ==
  /\ (Responds /\ request'.method = "POST" /\ request'.url = PathLogout)
       => /\ response'.status = 302 /\ response'.location = "/"
          /\ cookieJar' = JUndefined
  /\ (/\ Responds
      /\ cookieJar = JUndefined
      /\ request'.method = "GET" /\ request'.url = PathProfile
      /\ request'.cookie = ClientCookie(cookieJar))
       => response'.status = 302 /\ response'.location = "/"
  /\ (cookieJar = JUndefined /\ cookieJar' # JUndefined)
       => /\ request'.method = "POST"
          /\ request'.url \in {PathRegister, PathLogin}
          /\ response'.location = "/profile"

\* C12: POST /logout redirects to / and clears the access_token cookie, so
\* that GET /profile from that client redirects to / until a register or
\* login succeeds.
LogoutClearsSession == [][LogoutStep]_vars

\* A client that was given a cookie and holds none any more (it logged
\* out) asked for /profile and was sent to /.
LoggedOutSentHome ==
  /\ issued # {} /\ cookieJar = JUndefined
  /\ request.method = "GET" /\ request.url = PathProfile
  /\ request.cookie = JUndefined
  /\ response.status = 302 /\ response.location = "/"

\* One step of C13, the register form filled with f and read by the body
\* parser as fields.
TakenStep(f, fields) ==
  (Responds /\ IsRegister(request', f) /\ Holders(file, fields[2]) # {})
  => /\ response'.status = 302
     /\ response'.location = "/register"
     /\ response'.setCookie = JUndefined
     /\ cookieJar' = cookieJar
     /\ file' = file

\* C13: a register with an email that has a record redirects to
\* /register, sets no cookie and leaves the store as it was, whatever the
\* name and the password of the form.
TakenEmailRefused == [][\A f \in RegisterFills : TakenStep(f, FieldsRead(mode, f))]_vars

\* One step of C14 from the records before to the records after: they are
\* the same, or one record was put at the end by a register that
\* redirected to /profile.
AppendStep(before, after) ==
  /\ \/ after = before
     \/ /\ Len(after) = Len(before) + 1
        /\ SubSeq(after, 1, Len(before)) = before
        /\ request'.method = "POST" /\ request'.url = PathRegister
        /\ response'.location = "/profile"
  /\ ~(request'.method = "POST" /\ request'.url = PathRegister) => file' = file

\* C14: every step leaves the records of the store as they were or puts
\* one record at their end, the latter on a successful register only; no
\* other request changes the store and no record is changed or removed.
AppendOnly == [][AppendStep(readUsers(file).m, readUsers(file').m)]_vars

\* A second record was put behind the first by a register.
SecondRecordAppended ==
  /\ Len(readUsers(file).m) = 2
  /\ request.method = "POST" /\ request.url = PathRegister
  /\ response.location = "/profile"
  /\ \E f \in RegisterFills :
       IsRegister(request, f) /\ IsRecord(readUsers(file).m[2][2], f)

\* The value of the access_token cookie in a Cookie header of the client.
SentValue(cookieHeader) ==
  SubSeq(cookieHeader.s, Len(AccessToken) + 2, Len(cookieHeader.s))

\* The token in a cookie value the server has set: as it is in the http
\* variant, percent-decoded in the Express variant, where res.cookie
\* encoded it.
CookieToken(variant, v) ==
  IF variant = "http" THEN JStr(v) ELSE decodeURIComponent(JStr(v))

\* The subject of the token in a cookie value the server has set.
CookieSubject(variant, v) == GetProp(verifyToken(CookieToken(variant, v)), KeySub)

\* The subjects of the cookie values that a register or login can set.
SubjectTable ==
  [q \in Variants \X {j.s : j \in Jars \ {JUndefined}} |-> CookieSubject(q[1], q[2])] @@ <<>>

\* One step of C15: a logout leaves the users file as it was, and the
\* cookie that the client sent with its logout, sent again with the next
\* GET /profile, shows the profile of its subject.
ReplayStep ==
  /\ (request'.method = "POST" /\ request'.url = PathLogout) => file' = file
  /\ (/\ request.method = "POST" /\ request.url = PathLogout
      /\ request.cookie # JUndefined
      /\ request'.method = "GET" /\ request'.url = PathProfile
      /\ request'.cookie = request.cookie)
       => /\ response'.status = 200 /\ response'.page = "profile"
          /\ response'.email =
               Lookup(SubjectTable, <<mode, SentValue(request.cookie)>>,
                      CookieSubject(mode, SentValue(request.cookie)))

\* C15: logout changes no state of the server, and a token that a register
\* or login issued still shows the profile of its subject when it is
\* presented after the logout of its client.
TokenOutlivesLogout == [][ReplayStep]_vars

\* C18: the subject of every cookie the server has set is the email of a
\* record of the store, and GET /profile with a cookie the server has set
\* answers 200 with the page of the record whose email is that subject.
IssuedTokenOpensProfile ==
  /\ \A v \in issued :
       \E u \in Users(file) :
         HasEmail(u, Lookup(SubjectTable, <<mode, v>>, CookieSubject(mode, v)))
  /\ (/\ request.method = "GET" /\ request.url = PathProfile
      /\ request.cookie \in {ClientCookie(JStr(v)) : v \in issued})
       => /\ response.status = 200 /\ response.page = "profile"
          /\ response.email =
               Lookup(SubjectTable, <<mode, SentValue(request.cookie)>>,
                      CookieSubject(mode, SentValue(request.cookie)))

\* The response that request r got for the store db gave the client the
\* cookie kept, for a reason C19 admits: r is a login with the email and
\* the password of one record of db, or a register whose email had no
\* record in db and has the record of the form in after; and the subject
\* of the cookie is the email of r.
Entitled(r, db, after, subject) ==
  \/ \E e \in Emails, p \in Passwords :
       /\ IsLogin(r, e, p)
       /\ subject = e
       /\ \E u \in Users(db) : HasEmail(u, e) /\ StrictEq(GetProp(u, KeyPassword), p)
  \/ \E f \in RegisterFills :
       /\ IsRegister(r, f)
       /\ subject = FieldsRead(mode, f)[2]
       /\ Entries(db, FieldsRead(mode, f)[2]) = {}
       /\ \E u \in Users(after) : IsRecord(u, FieldsRead(mode, f))

\* One step of C19, kept being the cookie value the response gives the
\* client (undefined when it sets none or clears it).
IssueStep(kept) ==
  (Responds /\ kept.t = "string") =>
    Entitled(request', file, file',
             Lookup(SubjectTable, <<mode, kept.s>>, CookieSubject(mode, kept.s)))

\* C19: a response sets a token only for the email that its request
\* submitted, on a login whose email and password are those of one record
\* or on a register that created the record of that email.
IssuedOnlyToOwner ==
  [][IssueStep(ClientStore(JUndefined, response'.setCookie))]_vars

\* A login was given a token for its email while the store held another
\* record with the same password.
IssuedBesideSamePassword ==
  /\ response.location = "/profile" /\ response.setCookie.t = "string"
  /\ \E e \in Emails, p \in Passwords :
       /\ IsLogin(request, e, p)
       /\ \E u, w \in Users(file) :
            /\ HasCredentials(u, e, p)
            /\ ~HasEmail(w, e) /\ StrictEq(GetProp(w, KeyPassword), p)

\* The record is as the data model has it: a name that is not empty, an
\* email and a password that are strings.
Conforms(u) ==
  /\ GetProp(u, KeyName).t = "string" /\ GetProp(u, KeyName).s # <<>>
  /\ GetProp(u, KeyEmail).t = "string"
  /\ GetProp(u, KeyPassword).t = "string"

\* C17: every record of the store has a name that is not empty and an
\* email and a password that are present; a register that lacks one of
\* them or leaves it empty creates no record.
RecordsConform == \A u \in Users(file) : Conforms(u)

(***************************************************************************)
(* The two variants side by side: the http variant in file, cookieJar,     *)
(* request and response, the Express variant in twin, both from the same   *)
(* users file and given the same requests.  The handlers are taken from    *)
(* their tables, which hold them over every file, header and body that     *)
(* occurs here.                                                            *)
(***************************************************************************)

PairInit ==
  /\ mode = "http"
  /\ file \in {NoFile, saveUsers(JArr(<<>>))}
  /\ cookieJar = JUndefined
  /\ request = NoRequest
  /\ response = NoResponse
  /\ issued = {}
  /\ CodecIdle
  /\ inflight = <<>>
  /\ twin = [file |-> file, cookieJar |-> JUndefined, response |-> NoResponse]
  /\ alive = TRUE
  /\ pending = EmptyBag

\* The jar of a client after a response, set being what its Set-Cookie
\* header stores.
JarAfter(jar, resp, set) == IF resp.setCookie.t = "string" THEN set ELSE jar

\* The users file and the jar of the client of each variant.
StoreOf(variant) == IF variant = "http" THEN file ELSE twin.file
JarOf(variant) == IF variant = "http" THEN cookieJar ELSE twin.cookieJar

\* Request r answered by each variant with its out, each client storing
\* the cookie of its response; rest are the requests that still wait.  The
\* run ends when the process of the http variant does.
BothSettled(r, outs, rest) ==
  /\ request' = r
  /\ response' = outs["http"].resp
  /\ file' = outs["http"].db
  /\ \E kept \in {[v \in Variants |->
                     JarAfter(JarOf(v), outs[v].resp, StoreTable[outs[v].resp.setCookie])]
                   @@ <<>>} :
       /\ cookieJar' = kept["http"]
       /\ twin' = [file |-> outs["express"].db, cookieJar |-> kept["express"],
                   response |-> outs["express"].resp]
  /\ alive' = ~Exits(outs["http"].resp)
  /\ pending' = rest
  /\ UNCHANGED <<mode, issued, codecVars, inflight>>

\* The same, the outs of the two variants computed once.
BothSettle(r, byVariant, rest) ==
  \E outs \in {byVariant @@ <<>>} : BothSettled(r, outs, rest)

\* GET / and GET /register.
BothPage ==
  /\ alive
  /\ \E q \in {<<kind, ClientCookie(cookieJar)>> : kind \in {"home", "register"}} :
       BothSettle(Request("GET", IF q[1] = "home" THEN PathHome ELSE PathRegister, q[2], <<>>),
                  [v \in Variants |-> Out(Page(q[1]), StoreOf(v))], pending)

\* GET /profile, each client sending the cookie of its own jar.
BothProfile ==
  /\ alive
  /\ \E c \in {[v \in Variants |-> ClientCookie(JarOf(v))]} :
       BothSettle(Request("GET", PathProfile, c["http"], <<>>),
                  [v \in Variants |-> ProfileTable[<<v, StoreOf(v), c[v]>>]], pending)

\* The Cookie headers sent to both servers alike: the crafted ones, and
\* the token of a register or login as createToken made it.
SharedCookies ==
  CraftedCookies \cup {ClientCookie(JStr(createToken(Claim(e)))) : e \in TokenEmails}

\* GET /profile with the same Cookie header sent to both.
BothProfileWith ==
  /\ alive
  /\ \E q \in {<<c, pending>> : c \in SharedCookies} :
       BothSettle(Request("GET", PathProfile, q[1], <<>>),
                  [v \in Variants |-> ProfileTable[<<v, StoreOf(v), q[1]>>]], q[2])

\* POST /register and POST /login reach both servers with the same form.
BothReceive ==
  \E q \in {<<Request("POST", PathRegister, JUndefined, RegisterBody[f]), pending>> :
              f \in RegisterFills}
           \cup {<<Request("POST", PathLogin, JUndefined, LoginBody[k]), pending>> :
                   k \in LoginFills} :
    Receive(q[1])

\* The "end" event of a POST /register that waits at both servers; neither
\* store grows beyond MaxUsers records.
BothRegister ==
  /\ alive
  /\ \E r \in {p \in BagToSet(pending) : p.url = PathRegister} :
       \E outs \in {[v \in Variants |-> RegisterTable[<<v, StoreOf(v), r.body>>]] @@ <<>>} :
         /\ \A v \in Variants : Len(readUsers(outs[v].db).m) <= MaxUsers
         /\ BothSettled(r, outs, pending (-) SetToBag({r}))

\* The "end" event of a POST /login that waits at both servers.
BothLogin ==
  /\ alive
  /\ \E r \in {p \in BagToSet(pending) : p.url = PathLogin} :
       BothSettle(r, [v \in Variants |-> LoginTable[<<v, StoreOf(v), r.body>>]],
                  pending (-) SetToBag({r}))

\* POST /logout.
BothLogout ==
  /\ alive
  /\ \E c \in {ClientCookie(cookieJar)} :
       BothSettle(Request("POST", PathLogout, c, <<>>),
                  [v \in Variants |-> logoutRoute(v, StoreOf(v))], pending)

\* Any other method or path.
BothOther ==
  /\ alive
  /\ \E c \in {ClientCookie(cookieJar)} :
       BothSettle(Request("GET", PathSettings, c, <<>>),
                  [v \in Variants |-> Out(NotFound, StoreOf(v))], pending)

PairNext ==
  \/ BothPage
  \/ BothProfile
  \/ BothProfileWith
  \/ BothReceive
  \/ BothRegister
  \/ BothLogin
  \/ BothLogout
  \/ BothOther

PairSpec == PairInit /\ [][PairNext]_vars

\* What a response does to the cookie, kept being what its Set-Cookie
\* header leaves in a jar: nothing, clear it, or set a token with a
\* subject.
CookieEffect(variant, resp, kept) ==
  IF resp.setCookie.t # "string" THEN [kind |-> "untouched", subject |-> JUndefined]
  ELSE IF kept.t # "string" THEN [kind |-> "cleared", subject |-> JUndefined]
  ELSE [kind |-> "set",
        subject |-> Lookup(SubjectTable, <<variant, kept.s>>, CookieSubject(variant, kept.s))]

\* The abstract response: the page kind with what it shows, the redirect
\* target or the status, and what is done to the cookie.
Abstract(variant, resp) ==
  [status |-> resp.status, location |-> resp.location, page |-> resp.page,
   name |-> resp.name, email |-> resp.email,
   cookie |-> CookieEffect(variant, resp, ClientStore(JUndefined, resp.setCookie))]

\* C16: given the same requests from the same store, the http variant and
\* the Express variant give at every step the same abstract response and
\* hold the same store.
SameLogic ==
  /\ Abstract("http", response) = Abstract("express", twin.response)
  /\ readUsers(file) = readUsers(twin.file)

(***************************************************************************)
(* The token codec on its own: tokens issued, altered and crafted, each    *)
(* handed to verifyToken.                                                  *)
(***************************************************************************)

\* The subjects of the claims: letters in both cases, an address, a
\* letter outside ASCII (U+00E9), a quote that JSON escapes, and the empty
\* string.
Subjects ==
  {Str(<<"a">>), Str(<<"A">>), Str(<<"a", "@", "x", ".", "c", "o", "m">>),
   <<233>>, <<34>>, <<>>}

\* The valid session claims { sub: email }, email a string.
Claims == {Claim(JStr(e)) : e \in Subjects}

\* The token with its payload segment replaced by the segment of payload.
WithPayload(tok, payload) ==
  LET parts == Split(tok, 46) IN
  parts[1] \o <<46>> \o EncodeSegment(payload) \o <<46>> \o parts[3]

\* Tokens that are not of the form createToken gives a claim: a wrong
\* count of segments (one, none, two, four), a payload segment that is no
\* base64 or no JSON, and payloads that are JSON but no claim.
Malformed(c) ==
  {Str(<<"z", "z", "z">>),
   <<>>,
   SubSeq(createToken(c), 1, Len(createToken(c)) - 1),
   createToken(c) \o Str(<<".", "x">>),
   Str(<<"e", "3", "0", ".", "!", "!", "!", ".">>),
   Str(<<"e", "3", "0", ".", "z", "z", "z", ".">>),
   createToken(JNum(Str(<<"1">>))),
   createToken(JStr(Str(<<"s">>))),
   createToken(JArr(<<>>)),
   createToken(JObj(<<>>)),
   createToken(Claim(JNum(Str(<<"1">>)))),
   createToken(JNull)}

CodecInit ==
  /\ mode = "http"
  /\ file = NoFile
  /\ cookieJar = JUndefined
  /\ request = NoRequest
  /\ response = NoResponse
  /\ issued = {}
  /\ inflight = <<>>
  /\ twin = NoTwin
  /\ alive = TRUE
  /\ pending = EmptyBag
  /\ origin = "start"
  /\ claimed \in Claims
  /\ presented = JUndefined
  /\ verdict = NotRun

\* The server issues the token of the claim.
Issue ==
  /\ origin = "start"
  /\ origin' = "issued"
  /\ presented' = JStr(createToken(claimed))
  /\ UNCHANGED <<claimed, verdict, serverVars, inflight>>

\* A client replaces the payload segment of the issued token by the
\* segment of a claim with another subject.
Tamper ==
  /\ origin = "issued"
  /\ verdict = NotRun
  /\ \E c \in Claims \ {claimed} :
       presented' = JStr(WithPayload(presented.s, c))
  /\ origin' = "tampered"
  /\ UNCHANGED <<claimed, verdict, serverVars, inflight>>

\* A client writes a token by hand.
Craft ==
  /\ origin = "start"
  /\ origin' = "crafted"
  /\ \E t \in Malformed(claimed) : presented' = JStr(t)
  /\ UNCHANGED <<claimed, verdict, serverVars, inflight>>

\* The server verifies the token it is handed.
Verify ==
  /\ origin \in {"issued", "tampered", "crafted"}
  /\ verdict = NotRun
  /\ verdict' = verifyToken(presented)
  /\ UNCHANGED <<origin, claimed, presented, serverVars, inflight>>

CodecNext ==
  \/ Issue
  \/ Tamper
  \/ Craft
  \/ Verify

CodecSpec == CodecInit /\ [][CodecNext]_vars

(***************************************************************************)
(* Two registrations in flight                                             *)
(*                                                                         *)
(* The body of a POST arrives in chunks, one "data" event each, then the   *)
(* "end" event runs the handler from readUsers to res.end() in one turn of *)
(* the event loop (lines 151-160 and 100-114; the body parser of line 173  *)
(* and lines 253-262).                                                     *)
(***************************************************************************)

\* The most characters one chunk carries.
ChunkLen == 8

\* The smaller of two numbers.
Least(a, b) == IF a <= b THEN a ELSE b

\* A connection: what its client typed, the text it sends, how much of it
\* has arrived, the body the server has put together, and the response
\* once the handler has run.
Connection(f) ==
  [fill |-> f, text |-> RegisterForm(f[1], f[2], f[3]), arrived |-> 0,
   body |-> <<>>, done |-> FALSE, resp |-> NoResponse]

\* Two clients register at the same time with emails that differ.
ConcInit ==
  /\ mode \in Variants
  /\ file \in {NoFile, saveUsers(JArr(<<>>))}
  /\ cookieJar = JUndefined
  /\ request = NoRequest
  /\ response = NoResponse
  /\ issued = {}
  /\ CodecIdle
  /\ twin = NoTwin
  /\ alive = TRUE
  /\ pending = EmptyBag
  /\ \E f, g \in TypedFills :
       /\ f[2] # g[2]
       /\ inflight = <<Connection(f), Connection(g)>>

\* req.on("data", chunk => { body += chunk.toString(); })
Data(i) ==
  /\ alive
  /\ inflight[i].arrived < Len(inflight[i].text)
  /\ \E n \in {ChunkLen \div 2, ChunkLen} :
       LET upto == Least(inflight[i].arrived + n, Len(inflight[i].text)) IN
       inflight' = [inflight EXCEPT
                      ![i].arrived = upto,
                      ![i].body = @ \o SubSeq(inflight[i].text, inflight[i].arrived + 1, upto)]
  /\ UNCHANGED <<serverVars, codecVars>>

\* The handler of connection i has run and left out; an exception that
\* leaves it uncaught ends the process.
Ended(i, out) ==
  /\ file' = out.db
  /\ inflight' = [inflight EXCEPT ![i].done = TRUE, ![i].resp = out.resp]
  /\ alive' = ~Exits(out.resp)
  /\ UNCHANGED <<mode, cookieJar, request, response, issued, codecVars, twin, pending>>

\* req.on("end", ...): the body is parsed and the handler runs.
End(i) ==
  /\ alive
  /\ inflight[i].arrived = Len(inflight[i].text)
  /\ ~inflight[i].done
  /\ Ended(i, postRegister(mode, file, inflight[i].body))

ConcNext ==
  \/ \E i \in {1, 2} : Data(i)
  \/ \E i \in {1, 2} : End(i)

ConcSpec == ConcInit /\ [][ConcNext]_vars

\* C5: a registration that was answered with success is in the store, in
\* every state from its answer on, whatever the order in which the chunks
\* and the ends of the two requests arrived.
NoLostWrite ==
  \A i \in DOMAIN inflight :
    (inflight[i].done /\ inflight[i].resp.location = "/profile")
      => \E u \in Users(file) : IsRecord(u, inflight[i].fill)

\* Both registrations were answered with success, the second connection
\* first: its record is the first of the store.
BothRegistered ==
  /\ Len(inflight) = 2
  /\ \A i \in {1, 2} : inflight[i].done /\ inflight[i].resp.location = "/profile"
  /\ Len(readUsers(file).m) = 2
  /\ IsRecord(readUsers(file).m[1][2], inflight[2].fill)

(***************************************************************************)
(* The codec's contract                                                    *)
(***************************************************************************)

\* A value of the claim shape: an object that carries a string subject.
IsClaimShape(v) == v.t = "object" /\ GetProp(v, KeySub).t = "string"

\* C2: verifyToken returns null for every token of createToken whose
\* payload segment was replaced by one that decodes to another subject.
TamperDetected ==
  (origin = "tampered" /\ verdict # NotRun) => verdict = JNull

\* C3: for every valid claim c, verifyToken(createToken(c)) is a claim
\* equal to c.
RoundTrip ==
  (origin = "issued" /\ verdict # NotRun) => verdict = claimed

\* An issued token was verified, its subject a letter outside ASCII.
RoundTripDone ==
  origin = "issued" /\ verdict # NotRun /\ claimed = Claim(JStr(<<233>>))

\* C9: whatever verifyToken returns other than null comes from a token of
\* three segments and is of the claim shape; every other token is rejected.
RejectsMalformed ==
  (verdict # NotRun /\ verdict # JNull) =>
    Len(Split(presented.s, 46)) = 3 /\ IsClaimShape(verdict)

\* C10: on a string verifyToken never throws, and what it returns is a
\* claim or null.
VerifyTotal ==
  verdict # NotRun =>
    verdict.t # "throw" /\ (verdict = JNull \/ IsClaimShape(verdict))

=============================================================================
